---- MODULE Spec2Model ----
(***************************************************************************)
(* xsd-to-openapi: the schema generator (generateSchema and its helpers)   *)
(* and the operation assembler (generateOpenApiSpec) of                    *)
(* src/src/xsd-to-openapi.ts.                                              *)
(*                                                                         *)
(* Strings.  A type reference such as "xsd:string" is the sequence of its  *)
(* colon-separated parts, <<"xsd", "string">>: String.split(":") is then   *)
(* the representation itself, and startsWith/replace are computed on the   *)
(* parts.  An element name or a file path is the sequence of its           *)
(* characters.  An absent attribute (undefined) is NoAttr; a type          *)
(* attribute that is absent is NoType.                                     *)
(***************************************************************************)
EXTENDS Integers, Sequences, FiniteSets, TLC

\* ------------------------------------------------------------------------
\* Bounds of the model
\* ------------------------------------------------------------------------

\* longest element list drawn for the complex type under generation
MaxElems == 2

\* deepest chain of nested type resolutions the model follows
MaxDepth == 6

\* longest list of top-level elements drawn for the operation assembler
MaxTop == 2

\* longest list of import declarations drawn
MaxImports == 2

\* most sequence branches drawn for a choice
MaxBranches == 2

\* ------------------------------------------------------------------------
\* Values
\* ------------------------------------------------------------------------

NoAttr == "<absent>"

NoType == <<>>

NoPrefix == ""

\* truthiness of an attribute value: undefined and "" are falsy
Truthy(v) == v # NoAttr /\ v # ""

\* truthiness of a string held as its colon-separated parts
TruthyType(t) == t # NoType /\ t # <<"">>

openApiTypeMap ==
    [string |-> "string", decimal |-> "number", float |-> "number",
     double |-> "number", integer |-> "integer", boolean |-> "boolean",
     date |-> "string", dateTime |-> "string", time |-> "string"]

\* ------------------------------------------------------------------------
\* Generated schema nodes (Schema / SchemaProperty)
\* ------------------------------------------------------------------------

\* a node with every optional member absent; `type` NoAttr is "no type member".
\* `sources` is a history member that the program does not have: the source
\* elements that were added to the node with the property generated for
\* each, in the order they were added.  No definition of the model reads it.
BlankNode ==
    [type |-> NoAttr,
     hasProperties |-> FALSE, properties |-> <<>>,
     hasRequired |-> FALSE, required |-> <<>>,
     hasItems |-> FALSE, items |-> <<>>,
     combinator |-> NoAttr, alternatives |-> <<>>,
     default |-> NoAttr, fixed |-> NoAttr, description |-> NoAttr,
     sources |-> <<>>]

\* { type: t }
TypeNode(t) == [BlankNode EXCEPT !.type = t]

\* { type: "object", properties: {} }
EmptyObject == [BlankNode EXCEPT !.type = "object", !.hasProperties = TRUE]

\* { type: "array", items: inner }
ArrayNode(inner) ==
    [BlankNode EXCEPT !.type = "array", !.hasItems = TRUE, !.items = <<inner>>]

\* { [choiceType]: choiceSchemas }
CombinatorNode(choiceType, choiceSchemas) ==
    [BlankNode EXCEPT !.combinator = choiceType, !.alternatives = choiceSchemas]

\* properties[name] = property on an insertion-ordered object: an existing
\* key keeps its place and takes the new value, a new key is appended
RECURSIVE SetProperty(_, _, _)
SetProperty(props, name, property) ==
    IF props = <<>> THEN <<[name |-> name, node |-> property]>>
    ELSE IF Head(props).name = name
         THEN <<[name |-> name, node |-> property]>> \o Tail(props)
         ELSE <<Head(props)>> \o SetProperty(Tail(props), name, property)

PropertyNames(node) == {node.properties[i].name : i \in 1..Len(node.properties)}

PropertyOf(node, name) ==
    node.properties[CHOOSE i \in 1..Len(node.properties) :
                        node.properties[i].name = name].node

Range(s) == {s[i] : i \in 1..Len(s)}

Max(a, b) == IF a >= b THEN a ELSE b

\* ------------------------------------------------------------------------
\* Parsed schema nodes
\*   element     [name, type, minOccurs, maxOccurs, default, fixed,
\*                documentation]
\*   sequence    [element: Seq(element), choice: Seq(choice)]
\*   choice      [sequence: Seq(sequence), element: Seq(element), maxOccurs]
\*   complexType [name, sequence: Seq(sequence), choice: Seq(choice)]
\*   schema      [complexType: Seq(complexType), element: Seq(element),
\*                xmlns: Seq([prefix, uri]), import: Seq([namespace,
\*                schemaLocation])]
\* A child list that the parser did not produce (no such child) is <<>>;
\* the "xsd:" and "xs:" spellings of a child key are one key.
\* ------------------------------------------------------------------------

Element(name, type, minOccurs, maxOccurs) ==
    [name |-> name, type |-> type, minOccurs |-> minOccurs,
     maxOccurs |-> maxOccurs, default |-> NoAttr, fixed |-> NoAttr,
     documentation |-> NoAttr]

XsdSequence(elements, choices) == [element |-> elements, choice |-> choices]

XsdChoice(sequences, elements, maxOccurs) ==
    [sequence |-> sequences, element |-> elements, maxOccurs |-> maxOccurs]

XsdComplexType(name, sequences, choices) ==
    [name |-> name, sequence |-> sequences, choice |-> choices]

XsdSchema(complexTypes, elements) ==
    [complexType |-> complexTypes, element |-> elements, xmlns |-> <<>>, import |-> <<>>]

\* an import map without entries (getImportedSchemas returned nothing)
NoImports == [p \in {} |-> XsdSchema(<<>>, <<>>)]

\* ------------------------------------------------------------------------
\* resolveType
\* ------------------------------------------------------------------------

resolveType(defaultType, rawType) ==
    IF ~TruthyType(rawType)
    THEN [prefix |-> NoPrefix, typeName |-> <<"string">>]
    ELSE IF Len(rawType) >= 2 /\ rawType[1] = "tns"
    THEN [prefix |-> NoPrefix, typeName |-> Tail(rawType)]
    ELSE IF Len(rawType) = 2 /\ rawType[1] # "xsd" /\ rawType[1] # "xs"
    THEN [prefix |-> rawType[1],
          typeName |-> IF rawType[2] = "" THEN <<defaultType>>
                       ELSE <<rawType[2]>>]
    ELSE [prefix |-> NoPrefix, typeName |-> rawType]

\* String.replace(p + ":", "") on the parts of a string: the first part p
\* that a colon follows is removed together with that colon.  (No part of
\* the strings drawn here ends with "xsd" or "xs" without being it.)
RECURSIVE replacePrefix(_, _)
replacePrefix(parts, p) ==
    IF Len(parts) <= 1 THEN parts
    ELSE IF Head(parts) = p THEN Tail(parts)
    ELSE <<Head(parts)>> \o replacePrefix(Tail(parts), p)

\* elementType.replace("xsd:", "").replace("xs:", "")
formattedElement(elementType) ==
    replacePrefix(replacePrefix(elementType, "xsd"), "xs")

\* mutant of mappedElement: only the "xsd:" spelling of the prefix is removed
mappedElement_XsdPrefixOnly(elementType) ==
    LET f == replacePrefix(elementType, "xsd")
    IN IF Len(f) = 1 /\ f[1] \in DOMAIN openApiTypeMap
       THEN openApiTypeMap[f[1]] ELSE NoAttr

\* openApiTypeMap[formattedElement], NoAttr when the key is not in the map
mappedElement(elementType) ==
    LET f == formattedElement(elementType)
    IN IF Len(f) = 1 /\ f[1] \in DOMAIN openApiTypeMap
       THEN openApiTypeMap[f[1]] ELSE NoAttr

\* ------------------------------------------------------------------------
\* generateSchema and its helpers.  Each returns the generated node with
\* the resolvedTypes set as the call left it (the set is one mutable object
\* shared by the whole generation), the depth of nested type resolutions
\* below the call, and whether MaxDepth stopped a resolution.
\* ------------------------------------------------------------------------

Result(node, resolved, depth, cut) ==
    [node |-> node, resolved |-> resolved, depth |-> depth, cut |-> cut]

extractComplexTypes(xsdSchema) == xsdSchema.complexType

getSequenceElements(sequence) == sequence.element

getChoiceElements(choice) ==
    IF choice.sequence # <<>> THEN choice.sequence[1].element
    ELSE choice.element

\* the facets of the element copied onto its property
withFacets(property, element) ==
    [property EXCEPT
        !.description = IF Truthy(element.documentation)
                        THEN element.documentation ELSE @,
        !.default = IF Truthy(element.default) THEN element.default ELSE @,
        !.fixed = IF Truthy(element.fixed) THEN element.fixed ELSE @]

\* the array wrapping of lines 315-318
wrapMaxOccurs(elementMaxOccurs, propertySchema) ==
    IF elementMaxOccurs = "unbounded" THEN ArrayNode(propertySchema)
    ELSE propertySchema

\* mutant of withRequired: an array property is listed as required too
withRequired_ArraysRequired(openApiSchema, element, property) ==
    IF ~Truthy(element.minOccurs) \/ element.minOccurs = "1"
    THEN [openApiSchema EXCEPT !.hasRequired = TRUE, !.required = Append(@, element.name)]
    ELSE openApiSchema

\* lines 320-325: the required list of the enclosing schema
withRequired(openApiSchema, element, property) ==
    IF ~Truthy(element.minOccurs) \/ element.minOccurs = "1"
    THEN [openApiSchema EXCEPT
            !.hasRequired = TRUE,
            !.required = IF property.type # "array"
                         THEN Append(@, element.name) ELSE @]
    ELSE openApiSchema

\* lines 315-336, given the resolved propertySchema
attachProperty(element, openApiSchema, propertySchema) ==
    LET property == wrapMaxOccurs(element.maxOccurs, propertySchema)
        s == withRequired(openApiSchema, element, property)
    IN [s EXCEPT !.hasProperties = TRUE,
                 !.properties = SetProperty(@, element.name,
                                            withFacets(property, element)),
                 !.sources = Append(@, [element |-> element,
                                        property |-> withFacets(property, element)])]

\* mutant of choiceType: the choice's maxOccurs is not looked at
choiceType_AlwaysOneOf(choice) == "oneOf"

\* line 388
choiceType(choice) == IF choice.maxOccurs = "unbounded" THEN "anyOf" ELSE "oneOf"

RECURSIVE generateSchema(_, _, _, _, _, _)
RECURSIVE resolveReferencedSchema(_, _, _, _, _, _)
RECURSIVE addXsdElementToSchema(_, _, _, _, _, _, _)
RECURSIVE reduceSequence(_, _, _, _, _, _)
RECURSIVE mapChoice(_, _, _, _, _, _)

\* mutant of resolveReferencedSchema: the type name is not recorded in
\* resolvedTypes, so a repeated type is not recognised
resolveReferencedSchema_NotRecorded(xsdSchema, typeName, resolvedTypes, defaultType, importedSchemas, fuel) ==
    IF typeName \in resolvedTypes
    THEN Result(EmptyObject, resolvedTypes, 0, FALSE)
    ELSE IF fuel = 0
    THEN Result(EmptyObject, resolvedTypes, 0, TRUE)
    ELSE LET r == generateSchema(xsdSchema, typeName, resolvedTypes,
                                 importedSchemas, defaultType, fuel - 1)
         IN Result(r.node, r.resolved, r.depth + 1, r.cut)

resolveReferencedSchema(xsdSchema, typeName, resolvedTypes, defaultType, importedSchemas, fuel) ==
    IF typeName \in resolvedTypes
    THEN Result(EmptyObject, resolvedTypes, 0, FALSE)
    ELSE IF fuel = 0
    THEN Result(EmptyObject, resolvedTypes \cup {typeName}, 0, TRUE)
    ELSE LET r == generateSchema(xsdSchema, typeName,
                                 resolvedTypes \cup {typeName},
                                 importedSchemas, defaultType, fuel - 1)
         IN Result(r.node, r.resolved, r.depth + 1, r.cut)

\* lines 293-313: the propertySchema of an element
propertySchemaOf(element, xsdSchema, defaultType, importedSchemas, resolvedTypes, fuel) ==
    LET rt == resolveType(defaultType, element.type)
        prefix == rt.prefix
        elementType == rt.typeName
    IN IF prefix # NoPrefix /\ prefix \in DOMAIN importedSchemas
       THEN resolveReferencedSchema(importedSchemas[prefix], elementType,
                                    resolvedTypes, defaultType,
                                    importedSchemas, fuel)
       ELSE IF prefix = NoPrefix /\ TruthyType(elementType)
       THEN IF mappedElement(elementType) # NoAttr
            THEN Result(TypeNode(mappedElement(elementType)),
                        resolvedTypes, 0, FALSE)
            ELSE resolveReferencedSchema(xsdSchema, elementType,
                                         resolvedTypes, defaultType,
                                         importedSchemas, fuel)
       ELSE Result(TypeNode(defaultType), resolvedTypes, 0, FALSE)

addXsdElementToSchema(element, openApiSchema, xsdSchema, defaultType, importedSchemas, resolvedTypes, fuel) ==
    LET p == propertySchemaOf(element, xsdSchema, defaultType,
                              importedSchemas, resolvedTypes, fuel)
    IN Result(attachProperty(element, openApiSchema, p.node),
              p.resolved, p.depth, p.cut)

\* sequenceElements.reduce(..., acc): acc is a Result whose node is the
\* object under construction
reduceSequence(elements, acc, xsdSchema, defaultType, importedSchemas, fuel) ==
    IF elements = <<>> THEN acc
    ELSE LET r == addXsdElementToSchema(Head(elements), acc.node, xsdSchema,
                                        defaultType, importedSchemas,
                                        acc.resolved, fuel)
         IN reduceSequence(Tail(elements),
                           Result(r.node, r.resolved,
                                  Max(acc.depth, r.depth),
                                  acc.cut \/ r.cut),
                           xsdSchema, defaultType, importedSchemas, fuel)

\* choiceElements.map(...): acc is a Result whose node is a combinator node
\* collecting the alternatives built so far
mapChoice(elements, acc, xsdSchema, defaultType, importedSchemas, fuel) ==
    IF elements = <<>> THEN acc
    ELSE LET r == addXsdElementToSchema(Head(elements), EmptyObject,
                                        xsdSchema, defaultType,
                                        importedSchemas, acc.resolved, fuel)
         IN mapChoice(Tail(elements),
                      Result([acc.node EXCEPT
                                !.alternatives = Append(@, r.node)],
                             r.resolved, Max(acc.depth, r.depth),
                             acc.cut \/ r.cut),
                      xsdSchema, defaultType, importedSchemas, fuel)

\* mutant of generateSchema: a complex type without elements is generated
\* like any other (the test of line 372 is left out)
generateSchema_EmptyIsObject(xsdSchema, typeName, resolvedTypes, importedSchemas, defaultType, fuel) ==
    LET complexTypes == extractComplexTypes(xsdSchema)
        found == {i \in 1..Len(complexTypes) :
                    <<complexTypes[i].name>> = typeName}
    IN IF found = {}
       THEN Result(TypeNode(defaultType), resolvedTypes, 0, FALSE)
       ELSE
       LET complexType ==
               complexTypes[CHOOSE i \in found : \A j \in found : i <= j]
           sequence == complexType.sequence
           choice == complexType.choice
           sequenceElements ==
               IF sequence # <<>> THEN getSequenceElements(sequence[1])
               ELSE <<>>
           choiceElements ==
               IF choice # <<>> THEN getChoiceElements(choice[1]) ELSE <<>>
           sequenceSchema ==
               reduceSequence(sequenceElements,
                              Result(EmptyObject, resolvedTypes, 0, FALSE),
                              xsdSchema, defaultType, importedSchemas,
                              fuel)
       IN IF choiceElements = <<>> THEN sequenceSchema
          ELSE mapChoice(choiceElements,
                            Result(CombinatorNode(choiceType(choice[1]), <<>>),
                                   sequenceSchema.resolved,
                                   sequenceSchema.depth,
                                   sequenceSchema.cut),
                            xsdSchema, defaultType, importedSchemas, fuel)

\* lines 352-397
generateSchema(xsdSchema, typeName, resolvedTypes, importedSchemas, defaultType, fuel) ==
    LET complexTypes == extractComplexTypes(xsdSchema)
        found == {i \in 1..Len(complexTypes) :
                    <<complexTypes[i].name>> = typeName}
    IN IF found = {}
       THEN Result(TypeNode(defaultType), resolvedTypes, 0, FALSE)
       ELSE
       LET complexType ==
               complexTypes[CHOOSE i \in found : \A j \in found : i <= j]
           sequence == complexType.sequence
           choice == complexType.choice
           sequenceElements ==
               IF sequence # <<>> THEN getSequenceElements(sequence[1])
               ELSE <<>>
           choiceElements ==
               IF choice # <<>> THEN getChoiceElements(choice[1]) ELSE <<>>
       IN IF sequenceElements = <<>> /\ choiceElements = <<>>
          THEN Result(TypeNode(defaultType), resolvedTypes, 0, FALSE)
          ELSE
          LET sequenceSchema ==
                  reduceSequence(sequenceElements,
                                 Result(EmptyObject, resolvedTypes, 0, FALSE),
                                 xsdSchema, defaultType, importedSchemas,
                                 fuel)
          IN IF choiceElements = <<>> THEN sequenceSchema
             ELSE mapChoice(choiceElements,
                               Result(CombinatorNode(choiceType(choice[1]), <<>>),
                                      sequenceSchema.resolved,
                                      sequenceSchema.depth,
                                      sequenceSchema.cut),
                               xsdSchema, defaultType, importedSchemas, fuel)

\* ------------------------------------------------------------------------
\* Inputs of a schema generation
\* ------------------------------------------------------------------------

ListsUpTo(S, n) == UNION {[1..k -> S] : k \in 0..n}

GenInput(xsdSchema, typeName, importedSchemas, defaultType) ==
    [xsdSchema |-> xsdSchema, typeName |-> typeName,
     importedSchemas |-> importedSchemas, defaultType |-> defaultType]

\* defaultType values drawn ("string" is the default of line 495)
DefaultTypes == {"string", "decimal"}

XsdString == <<"xsd", "string">>

\* complex types that the drawn types refer to
TypeB == XsdComplexType("B", <<XsdSequence(<<Element("b", XsdString, NoAttr, NoAttr)>>, <<>>)>>, <<>>)

\* -- facets: one complex type A, a sequence or a choice of elements whose
\*    type, minOccurs and maxOccurs vary
Occurs ==
    {<<NoAttr, NoAttr>>, <<"0", NoAttr>>, <<"1", "1">>,
     <<NoAttr, "unbounded">>, <<"0", "unbounded">>, <<NoAttr, "5">>}

FacetElements ==
    {Element(n, t, o[1], o[2]) :
        n \in {"x", "y"}, t \in {XsdString, <<"tns", "B">>}, o \in Occurs}

FacetTypes ==
    {XsdComplexType("A", <<XsdSequence(l, <<>>)>>, <<>>) : l \in ListsUpTo(FacetElements, MaxElems)}
    \cup {XsdComplexType("A", <<>>, <<XsdChoice(<<>>, l, m)>>) :
            l \in ListsUpTo(FacetElements, MaxElems), m \in {NoAttr, "unbounded"}}

FacetInputs(in) ==
    \E a \in FacetTypes, d \in DefaultTypes :
        in = GenInput(XsdSchema(<<a, TypeB>>, <<>>), <<"A">>, NoImports, d)

\* -- primitives: every spelling of the nine primitive names
PrimitiveNames == DOMAIN openApiTypeMap

PrimitiveSpellings ==
    {<<n>> : n \in PrimitiveNames}
    \cup {<<p, n>> : p \in {"xsd", "xs", "tns"}, n \in PrimitiveNames}

\* spellings that name no primitive: no type attribute, an empty local name
\* and a prefix that no import declares
OtherSpellings == {NoType, <<"tns", "">>, <<"zz", "B">>, <<"zz", "string">>, <<"zz", "">>}

PrimitiveInputs(in) ==
    \E t \in PrimitiveSpellings \cup OtherSpellings, m \in {NoAttr, "unbounded"}, d \in DefaultTypes :
        in = GenInput(XsdSchema(<<XsdComplexType("A", <<XsdSequence(<<Element("x", t, NoAttr, m)>>, <<>>)>>, <<>>), TypeB>>, <<>>),
                      <<"A">>, NoImports, d)

\* -- type graphs: A, B in the main schema and C in a schema imported under
\*    the prefix "imp", referring to one another; "zz" is a prefix that no
\*    import declares
PosName(i) == "e" \o ToString(i)

RefElements(l) == [i \in 1..Len(l) |-> Element(PosName(i), l[i], NoAttr, NoAttr)]

RefsOfA == {<<"A">>, <<"tns", "B">>, <<"imp", "C">>, <<"C">>, <<"imp", "A">>}

RefsOfB == {<<"A">>, <<"B">>, <<"imp", "C">>}

RefsOfC == {<<"C">>, <<"imp", "C">>, <<"A">>, <<"tns", "B">>}

\* a complex type with one sequence holding the references l
RefType(name, l) == XsdComplexType(name, <<XsdSequence(RefElements(l), <<>>)>>, <<>>)

\* the imported schema's own type A
ImportedA == XsdComplexType("A", <<XsdSequence(<<Element("a", <<"xs", "integer">>, NoAttr, NoAttr)>>, <<>>)>>, <<>>)

GraphSchemas ==
    {XsdSchema(<<RefType("A", la), RefType("B", lb)>>, <<>>) :
        la \in ListsUpTo(RefsOfA, MaxElems), lb \in ListsUpTo(RefsOfB, 1)}

GraphImports ==
    {NoImports} \cup
    {[p \in {"imp"} |-> XsdSchema(<<RefType("C", lc), ImportedA>>, <<>>)] : lc \in ListsUpTo(RefsOfC, 1)}

GraphInputs(in) ==
    \E s \in GraphSchemas, m \in GraphImports, d \in DefaultTypes :
        in = GenInput(s, <<"A">>, m, d)

\* -- content models: the sequences and choices of A, with or without
\*    elements, nested in one another or side by side
ShapeElements == {Element("x", XsdString, NoAttr, NoAttr), Element("y", <<"tns", "B">>, "0", NoAttr)}

ShapeNested == {<<>>} \cup {<<e>> : e \in ShapeElements}

ShapeSequences ==
    {<<>>} \cup
    {<<XsdSequence(l, IF n = <<>> THEN <<>> ELSE <<XsdChoice(<<>>, n, NoAttr)>>)>> :
        l \in ListsUpTo(ShapeElements, MaxElems), n \in ShapeNested}

ShapeChoices ==
    {<<>>} \cup
    {<<XsdChoice(IF n = <<>> THEN <<>> ELSE <<XsdSequence(n, <<>>)>>, l, m)>> :
        l \in ListsUpTo(ShapeElements, MaxElems), n \in ShapeNested, m \in {NoAttr, "unbounded"}}

ShapeInputs(in) ==
    \E sq \in ShapeSequences, ch \in ShapeChoices, d \in DefaultTypes :
        in = GenInput(XsdSchema(<<XsdComplexType("A", sq, ch), TypeB>>, <<>>), <<"A">>, NoImports, d)

\* -- annotated elements: one element of A with or without a default, a
\*    fixed value and a documentation string, each absent, empty or "v"
DocumentedValues == {NoAttr, "", "v"}

DocumentedElements ==
    {[Element("x", t, o[1], o[2]) EXCEPT !.default = d, !.fixed = f, !.documentation = a] :
        t \in {XsdString, <<"tns", "B">>}, o \in Occurs,
        d \in DocumentedValues, f \in DocumentedValues, a \in DocumentedValues}

DocumentedInputs(in) ==
    \E e \in DocumentedElements, d \in DefaultTypes :
        in = GenInput(XsdSchema(<<XsdComplexType("A", <<XsdSequence(<<e>>, <<>>)>>, <<>>), TypeB>>, <<>>),
                      <<"A">>, NoImports, d)

\* -- branches: A is a choice whose branches are sequences of elements
BranchElements == {Element(n, XsdString, NoAttr, NoAttr) : n \in {"x", "y", "z"}}

Branches == {XsdSequence(l, <<>>) : l \in ListsUpTo(BranchElements, MaxElems) \ {<<>>}}

BranchInputs(in) ==
    \E b \in ListsUpTo(Branches, MaxBranches), m \in {NoAttr, "unbounded"}, d \in DefaultTypes :
        in = GenInput(XsdSchema(<<XsdComplexType("A", <<>>, <<XsdChoice(b, <<>>, m)>>), TypeB>>, <<>>),
                      <<"A">>, NoImports, d)

GenInputs(in) ==
    \/ FacetInputs(in) \/ PrimitiveInputs(in) \/ GraphInputs(in) \/ ShapeInputs(in)
    \/ DocumentedInputs(in) \/ BranchInputs(in)

\* ------------------------------------------------------------------------
\* The operation assembler: xsdToOpenApi and generateOpenApiSpec.  Names
\* and paths are sequences of characters.
\* ------------------------------------------------------------------------

EndsWith(str, suffix) ==
    Len(suffix) <= Len(str) /\ SubSeq(str, Len(str) - Len(suffix) + 1, Len(str)) = suffix

\* str.substring(0, str.length - n)
DropLast(str, n) == SubSeq(str, 1, Len(str) - n)

\* String.toLowerCase on the characters drawn
LowerChar(c) == CASE c = "A" -> "a" [] c = "B" -> "b" [] OTHER -> c

toLowerCase(str) == [i \in 1..Len(str) |-> LowerChar(str[i])]

XsdExtension == <<".", "x", "s", "d">>

\* the last component of a path
RECURSIVE lastComponent(_)
lastComponent(path) ==
    IF path = <<>> \/ path[Len(path)] = "/" THEN <<>>
    ELSE Append(lastComponent(DropLast(path, 1)), path[Len(path)])

\* path.basename(path, ext) of a path that does not end with a separator
basename(path, ext) ==
    LET name == lastComponent(path)
    IN IF EndsWith(name, ext) /\ name # ext THEN DropLast(name, Len(ext)) ELSE name

\* the defaults of lines 490-497
DefaultRequestSuffix == <<"R", "e", "q">>

DefaultResponseSuffix == <<"R", "e", "s">>

DefaultHttpMethod == "post"

DefaultContentType == "application/json"

DefaultDefaultType == "string"

\* an option that holds a string of characters, or a flag, when it is given
NoString == <<NoAttr>>

NoFlag == <<>>

Flag(b) == <<b>>

OrDefault(option, default) == IF option = NoAttr THEN default ELSE option

StringOrDefault(option, default) == IF option = NoString THEN default ELSE option

FlagOrDefault(option, default) == IF option = NoFlag THEN default ELSE option[1]

\* a string that is neither undefined nor empty
TruthyString(str) == str # NoString /\ str # <<>>

\* an insertion-ordered object: obj[key] = value
RECURSIVE SetKey(_, _, _)
SetKey(obj, key, value) ==
    IF obj = <<>> THEN <<[key |-> key, value |-> value]>>
    ELSE IF Head(obj).key = key THEN <<[key |-> key, value |-> value]>> \o Tail(obj)
    ELSE <<Head(obj)>> \o SetKey(Tail(obj), key, value)

HasKey(obj, key) == \E i \in 1..Len(obj) : obj[i].key = key

GetKey(obj, key) == obj[CHOOSE i \in 1..Len(obj) : obj[i].key = key].value

\* mutant of registerRoles: a role that is taken stays with its element
registerRoles_FirstWins(acc, pathName, isRequest, isResponse, element) ==
    LET old == IF HasKey(acc, pathName) THEN GetKey(acc, pathName)
               ELSE [request |-> <<>>, response |-> <<>>]
    IN SetKey(acc, pathName,
              [request |-> IF isRequest /\ old.request = <<>> THEN <<element>> ELSE old.request,
               response |-> IF isResponse /\ old.response = <<>> THEN <<element>> ELSE old.response])

\* lines 545-549: the roles of one element registered under pathName; a
\* role's slot is a list of at most one element
registerRoles(acc, pathName, isRequest, isResponse, element) ==
    LET old == IF HasKey(acc, pathName) THEN GetKey(acc, pathName)
               ELSE [request |-> <<>>, response |-> <<>>]
    IN SetKey(acc, pathName,
              [request |-> IF isRequest THEN <<element>> ELSE old.request,
               response |-> IF isResponse THEN <<element>> ELSE old.response])

\* mutant of groupElement: the name stripped of the response suffix is the
\* path name of every response
groupElement_ResponseNameWins(acc, element, requestSuffix, responseSuffix) ==
    LET elementName == element.name
        isRequest == requestSuffix # <<>> /\ EndsWith(elementName, requestSuffix)
        isResponse == responseSuffix # <<>> /\ EndsWith(elementName, responseSuffix)
        pathName == IF isResponse THEN DropLast(elementName, Len(responseSuffix))
                    ELSE IF isRequest THEN DropLast(elementName, Len(requestSuffix))
                    ELSE elementName
    IN IF isRequest \/ isResponse
       THEN registerRoles(acc, pathName, isRequest, isResponse, element)
       ELSE acc

\* lines 524-551: one step of the reduce over the top-level elements
groupElement(acc, element, requestSuffix, responseSuffix) ==
    LET elementName == element.name
        isRequest == requestSuffix # <<>> /\ EndsWith(elementName, requestSuffix)
        requestPathName == IF isRequest THEN DropLast(elementName, Len(requestSuffix))
                           ELSE elementName
        isResponse == responseSuffix # <<>> /\ EndsWith(elementName, responseSuffix)
        potentialPathName == DropLast(elementName, Len(responseSuffix))
        pathName == IF isResponse /\ (~isRequest \/ potentialPathName = requestPathName)
                    THEN potentialPathName ELSE requestPathName
    IN IF isRequest \/ isResponse
       THEN registerRoles(acc, pathName, isRequest, isResponse, element)
       ELSE acc

\* the schema name, were it not lower-cased
specNameOf_NoLowerCase(schemaName, inputFilePath) ==
    IF TruthyString(schemaName) THEN schemaName ELSE basename(inputFilePath, XsdExtension)

\* line 230 and line 234: the schema name handed to generateOpenApiSpec
specNameOf(schemaName, inputFilePath) ==
    toLowerCase(IF TruthyString(schemaName) THEN schemaName
                ELSE basename(inputFilePath, XsdExtension))

\* line 559
openApiPathNameOf(useSchemaNameInPath, schemaName, pathName) ==
    IF useSchemaNameInPath THEN <<"/">> \o schemaName \o <<"/">> \o pathName
    ELSE <<"/">> \o pathName

\* lines 577-582 and 597-602: the schema of a request or response element
bodySchema(xsdSchema, element, defaultType, importedSchemas) ==
    generateSchema(xsdSchema, resolveType(defaultType, element.type).typeName, {},
                   importedSchemas, defaultType, MaxDepth).node

\* httpMethod.toUpperCase() on the methods drawn
upperMethod(method) == CASE method = "post" -> "POST" [] method = "put" -> "PUT" [] OTHER -> method

\* mutant of operationOf: the response is generated with the resolved-type
\* set that the generation of the request left behind
operationOf_SharedResolvedTypes(xsdSchema, pathName, openApiPathName, entry, httpMethod, contentType, defaultType, importedSchemas) ==
    LET requestSchema ==
            IF entry.request = <<>> THEN Result(BlankNode, {}, 0, FALSE)
            ELSE generateSchema(xsdSchema, resolveType(defaultType, entry.request[1].type).typeName, {},
                                importedSchemas, defaultType, MaxDepth)
    IN [operationId |-> pathName,
        summary |-> <<upperMethod(httpMethod), openApiPathName>>,
        requestBody |->
            IF entry.request = <<>> THEN <<>>
            ELSE <<[required |-> entry.request[1].minOccurs # "0",
                    description |-> entry.request[1].documentation,
                    content |-> SetKey(<<>>, contentType, [schema |-> requestSchema.node])]>>,
        responses |->
            IF entry.response = <<>> THEN <<>>
            ELSE SetKey(<<>>, "200",
                        [description |-> entry.response[1].documentation,
                         content |-> SetKey(<<>>, contentType,
                            [schema |-> generateSchema(xsdSchema,
                                            resolveType(defaultType, entry.response[1].type).typeName,
                                            requestSchema.resolved, importedSchemas, defaultType,
                                            MaxDepth).node])])]

\* lines 561-606: the operation of one path name
operationOf(xsdSchema, pathName, openApiPathName, entry, httpMethod, contentType, defaultType, importedSchemas) ==
    [operationId |-> pathName,
     summary |-> <<upperMethod(httpMethod), openApiPathName>>,
     requestBody |->
        IF entry.request = <<>> THEN <<>>
        ELSE <<[required |-> entry.request[1].minOccurs # "0",
                description |-> entry.request[1].documentation,
                content |-> SetKey(<<>>, contentType,
                    [schema |-> bodySchema(xsdSchema, entry.request[1], defaultType, importedSchemas)])]>>,
     responses |->
        IF entry.response = <<>> THEN <<>>
        ELSE SetKey(<<>>, "200",
                    [description |-> entry.response[1].documentation,
                     content |-> SetKey(<<>>, contentType,
                        [schema |-> bodySchema(xsdSchema, entry.response[1], defaultType, importedSchemas)])])]

\* ------------------------------------------------------------------------
\* Schema sources, imports and the error schema.  A text is held as the
\* document the parser delivers for it: [schema: a list of at most one
\* schema root].  xsdContent and errorSchemaContent hold a list of at most
\* one document, the empty list being an absent or empty string; the file
\* system maps the paths of the existing files to their documents.
\* ------------------------------------------------------------------------

Document(roots) == [schema |-> roots]

NoFiles == [f \in {} |-> Document(<<>>)]

existsSync(files, path) == path \in DOMAIN files

\* the source, were inline content taken first and the input file ignored
\* when both are given
sourceSchema_ContentFirst(inputFilePath, xsdContent, files) ==
    IF ~TruthyString(inputFilePath) /\ xsdContent = <<>>
    THEN [error |-> "An input file path or XSD content must be provided", schema |-> <<>>]
    ELSE IF xsdContent = <<>> /\ ~existsSync(files, inputFilePath)
    THEN [error |-> "Input file not found", schema |-> <<>>]
    ELSE LET xsdObj == IF xsdContent # <<>> THEN xsdContent[1] ELSE files[inputFilePath]
         IN IF xsdObj.schema = <<>>
            THEN [error |-> "No XSD schema found", schema |-> <<>>]
            ELSE [error |-> "", schema |-> xsdObj.schema]

\* lines 214-228: the schema root of the call's source, or the failure
sourceSchema(inputFilePath, xsdContent, files) ==
    IF ~TruthyString(inputFilePath) /\ xsdContent = <<>>
    THEN [error |-> "An input file path or XSD content must be provided", schema |-> <<>>]
    ELSE IF TruthyString(inputFilePath) /\ ~existsSync(files, inputFilePath)
    THEN [error |-> "Input file not found", schema |-> <<>>]
    ELSE LET xsdObj == IF TruthyString(inputFilePath) THEN files[inputFilePath] ELSE xsdContent[1]
         IN IF xsdObj.schema = <<>>
            THEN [error |-> "No XSD schema found", schema |-> <<>>]
            ELSE [error |-> "", schema |-> xsdObj.schema]

\* path.dirname of a path that does not end with a separator
RECURSIVE dirname(_)
dirname(path) ==
    IF path = <<>> THEN <<".">>
    ELSE IF path[Len(path)] = "/" THEN (IF Len(path) = 1 THEN path ELSE DropLast(path, 1))
    ELSE dirname(DropLast(path, 1))

\* path.join of a directory and a file name without "." or ".." segments
join(dir, name) == IF dir = <<".">> THEN name ELSE dir \o <<"/">> \o name

\* lines 401-418: the prefix declared last for a namespace URI, "xsd" and
\* "xs" left out; <<>> when the URI has none
RECURSIVE prefixOfNamespace(_, _)
prefixOfNamespace(xmlns, uri) ==
    IF xmlns = <<>> THEN <<>>
    ELSE LET last == xmlns[Len(xmlns)]
         IN IF last.uri = uri /\ last.prefix \notin {"xsd", "xs"} THEN <<last.prefix>>
            ELSE prefixOfNamespace(DropLast(xmlns, 1), uri)

\* line 432
namespacePrefixOf(xsdSchema, xsdImport) ==
    LET found == prefixOfNamespace(xsdSchema.xmlns, xsdImport.namespace)
    IN IF found = <<>> THEN "" ELSE found[1]

\* lines 435-438
importFilePathOf(inputFilePath, xsdImport) ==
    join(dirname(inputFilePath),
         IF EndsWith(xsdImport.schemaLocation, XsdExtension) THEN xsdImport.schemaLocation
         ELSE xsdImport.schemaLocation \o XsdExtension)

\* the read of an import file, were a file without schema root taken as an
\* empty schema
importOutcome_RootlessIsEmpty(files, importFilePath) ==
    IF ~existsSync(files, importFilePath) THEN [error |-> "ENOENT", schema |-> <<>>]
    ELSE IF files[importFilePath].schema = <<>>
    THEN [error |-> "", schema |-> <<XsdSchema(<<>>, <<>>)>>]
    ELSE [error |-> "", schema |-> files[importFilePath].schema]

\* lines 440-448: what the read of one import file ends with
importOutcome(files, importFilePath) ==
    IF ~existsSync(files, importFilePath) THEN [error |-> "ENOENT", schema |-> <<>>]
    ELSE IF files[importFilePath].schema = <<>>
    THEN [error |-> "Invalid XSD schema", schema |-> <<>>]
    ELSE [error |-> "", schema |-> files[importFilePath].schema]

\* importedSchemas[prefix] = schema
setImport(importedSchemas, prefix, schema) ==
    [p \in DOMAIN importedSchemas \cup {prefix} |->
        IF p = prefix THEN schema ELSE importedSchemas[p]]

ErrorOptions(content, filePath, statusCode, description, typeName) ==
    [errorSchemaContent |-> content, errorSchemaFilePath |-> filePath,
     errorStatusCode |-> statusCode, errorDescription |-> description,
     errorTypeName |-> typeName]

\* lines 611-626: the root of the error schema (none when the document has
\* none, or when neither content nor path is given), or the failure
errorSchemaOf(error, files) ==
    IF error.errorSchemaContent # <<>>
    THEN [error |-> "", schema |-> error.errorSchemaContent[1].schema]
    ELSE IF TruthyString(error.errorSchemaFilePath)
    THEN IF existsSync(files, error.errorSchemaFilePath)
         THEN [error |-> "", schema |-> files[error.errorSchemaFilePath].schema]
         ELSE [error |-> "Failed to parse error schema", schema |-> <<>>]
    ELSE [error |-> "", schema |-> <<>>]

\* line 630: error.errorTypeName ?? complexTypes[0]?.["@_name"]
errorTypeNameOf(error, errorXsdSchema) ==
    IF error.errorTypeName # NoAttr THEN <<error.errorTypeName>>
    ELSE IF extractComplexTypes(errorXsdSchema) = <<>> THEN NoType
    ELSE <<extractComplexTypes(errorXsdSchema)[1].name>>

\* lines 628-644: the operation with the error response, when there is an
\* error schema
withErrorResponse(operation, error, errorXsdSchema, contentType, defaultType) ==
    IF errorXsdSchema = <<>> THEN operation
    ELSE [operation EXCEPT !.responses =
            SetKey(@, error.errorStatusCode,
                   [description |-> IF Truthy(error.errorDescription) THEN error.errorDescription
                                    ELSE "Error response",
                    content |-> SetKey(<<>>, contentType,
                        [schema |-> generateSchema(errorXsdSchema[1],
                                                   errorTypeNameOf(error, errorXsdSchema[1]), {},
                                                   NoImports, defaultType, MaxDepth).node])])]

\* ------------------------------------------------------------------------
\* Inputs of a conversion
\* ------------------------------------------------------------------------

TypeA == XsdComplexType("A", <<XsdSequence(<<Element("a", <<"xsd", "integer">>, NoAttr, NoAttr)>>, <<>>)>>, <<>>)

\* names of top-level elements: a stem with or without a suffix
TopNames ==
    {<<"a">>, <<"a", "s">>, <<"a", "e", "s">>, <<"a", "q">>,
     <<"a", "R", "e", "q">>, <<"a", "R", "e", "s">>, <<"b", "s">>}

TopElements == {Element(n, t, NoAttr, NoAttr) : n \in TopNames, t \in {<<"A">>, <<"tns", "B">>}}

\* (requestSuffix, responseSuffix) options: absent, empty, disjoint, one a
\* suffix of the other, equal
SuffixOptions ==
    {<<NoString, NoString>>, <<<<"q">>, <<"s">>>>, <<<<"s">>, <<"e", "s">>>>,
     <<<<"e", "s">>, <<"s">>>>, <<<<"s">>, <<"s">>>>, <<<<>>, <<"s">>>>, <<<<"q">>, <<>>>>}

Options(requestSuffix, responseSuffix, useSchemaNameInPath) ==
    [requestSuffix |-> requestSuffix, responseSuffix |-> responseSuffix,
     useSchemaNameInPath |-> useSchemaNameInPath, httpMethod |-> NoAttr,
     contentType |-> NoAttr, defaultType |-> NoAttr, error |-> <<>>]

Config(schemaName, inputFilePath, options) ==
    [schemaName |-> schemaName, inputFilePath |-> inputFilePath, xsdContent |-> <<>>,
     outputFilePath |-> NoString, specGenerationOptions |-> options]

SchemaNames == {NoString, <<>>, <<"A", "b">>}

InputFilePaths ==
    {<<"d", "/", "B", "-", "a", ".", "x", "s", "d">>, <<"B", "a", ".", "x", "s", "d">>, <<"d", "/", "B", "a">>}

\* a call on inline content, and a call on an input file
OnContent(c, xsdSchema) == [c EXCEPT !.xsdContent = <<Document(<<xsdSchema>>)>>]

FileOf(path, document) == [f \in {path} |-> document]

\* -- pairing: the element list and the suffixes vary
PairingInputs(c, fs) ==
    \E l \in ListsUpTo(TopElements, MaxTop), sf \in SuffixOptions :
        /\ c = OnContent(Config(<<"A", "b">>, NoString, Options(sf[1], sf[2], NoFlag)),
                         XsdSchema(<<TypeA, TypeB>>, l))
        /\ fs = NoFiles

NamingSchema ==
    XsdSchema(<<TypeA, TypeB>>,
              <<Element(<<"a", "R", "e", "q">>, <<"A">>, NoAttr, NoAttr),
                Element(<<"B", "R", "e", "s">>, <<"tns", "B">>, NoAttr, NoAttr)>>)

\* -- naming: the schema name, the input file and useSchemaNameInPath vary
NamingInputs(c, fs) ==
    \E n \in SchemaNames, f \in InputFilePaths \cup {NoString}, u \in {NoFlag, Flag(FALSE), Flag(TRUE)} :
        /\ c = IF f = NoString
               THEN OnContent(Config(n, f, Options(NoString, NoString, u)), NamingSchema)
               ELSE Config(n, f, Options(NoString, NoString, u))
        /\ fs = IF f = NoString THEN NoFiles ELSE FileOf(f, Document(<<NamingSchema>>))

\* -- imports: the import declarations, the import files and the types of
\* the top-level elements vary.  The main schema d/m.xsd declares the
\* prefixes imp (namespace u1) and ext (namespace u2); the type C is declared
\* in the import files c.xsd and e.xsd and, in half of the inputs, in the
\* main schema as well.
MainFile == <<"d", "/", "m", ".", "x", "s", "d">>

CFile == <<"d", "/", "c", ".", "x", "s", "d">>

EFile == <<"d", "/", "e", ".", "x", "s", "d">>

XsdImport(namespace, schemaLocation) == [namespace |-> namespace, schemaLocation |-> schemaLocation]

ImportDeclarations ==
    {XsdImport("u1", <<"c">>), XsdImport("u1", <<"e", ".", "x", "s", "d">>),
     XsdImport("u2", <<"e", ".", "x", "s", "d">>), XsdImport("u9", <<"c">>)}

TypeOf(name, element) == XsdComplexType(name, <<XsdSequence(<<element>>, <<>>)>>, <<>>)

\* the type C as c.xsd, e.xsd and the main schema declare it
ImportedC == XsdSchema(<<TypeOf("C", Element("c", <<"xsd", "boolean">>, NoAttr, NoAttr))>>, <<>>)

ImportedE == XsdSchema(<<TypeOf("C", Element("e", <<"xsd", "decimal">>, NoAttr, NoAttr))>>, <<>>)

LocalC == TypeOf("C", Element("x", <<"xsd", "string">>, NoAttr, NoAttr))

\* a local type with an element of the imported type
TypeT == TypeOf("T", Element("n", <<"imp", "C">>, NoAttr, NoAttr))

\* a file that is missing (<<>>), without schema root, or holding `schema`
FileStates(path, schema) ==
    {NoFiles, FileOf(path, Document(<<>>)), FileOf(path, Document(<<schema>>))}

\* the types of the request and of the response element
TopTypePairs ==
    {<<<<"imp", "C">>, <<"T">>>>, <<<<"T">>, <<"imp", "C">>>>,
     <<<<"ext", "C">>, <<"imp", "C">>>>, <<<<"A">>, <<"A">>>>}

ImportMain(localTypes, types, imports) ==
    [XsdSchema(<<TypeA, TypeT>> \o localTypes,
               <<Element(<<"a", "R", "e", "q">>, types[1], NoAttr, NoAttr),
                 Element(<<"a", "R", "e", "s">>, types[2], NoAttr, NoAttr)>>)
     EXCEPT !.xmlns = <<[prefix |-> "xsd", uri |-> "w3"], [prefix |-> "imp", uri |-> "u1"],
                        [prefix |-> "ext", uri |-> "u2"]>>,
            !.import = imports]

ImportInputs(c, fs) ==
    \E imports \in ListsUpTo(ImportDeclarations, MaxImports), types \in TopTypePairs,
       localTypes \in {<<>>, <<LocalC>>},
       cFile \in FileStates(CFile, ImportedC), eFile \in FileStates(EFile, ImportedE) :
        /\ c = [Config(<<"A", "b">>, MainFile, Options(NoString, NoString, NoFlag))
                EXCEPT !.outputFilePath = <<"o">>]
        /\ fs = FileOf(MainFile, Document(<<ImportMain(localTypes, types, imports)>>)) @@ cFile @@ eFile

\* -- sources: what the call names as its source varies: no, an empty, a
\* missing or an existing input file, with or without schema root; no
\* inline content, or content with or without schema root; with and without
\* schema name and output file
SourceFile == <<"s", ".", "x", "s", "d">>

\* what the input file holds differs from what the inline content holds
FileSchema ==
    XsdSchema(<<TypeA, TypeB>>, <<Element(<<"f", "R", "e", "q">>, <<"tns", "B">>, NoAttr, NoAttr)>>)

SourceInputs(c, fs) ==
    \E f \in {NoString, <<>>, SourceFile}, fileState \in FileStates(SourceFile, FileSchema),
       content \in {<<>>, <<Document(<<>>)>>, <<Document(<<NamingSchema>>)>>},
       n \in {NoString, <<"A", "b">>}, o \in {NoString, <<"o">>} :
        /\ c = [Config(n, f, Options(NoString, NoString, NoFlag))
                EXCEPT !.xsdContent = content, !.outputFilePath = o]
        /\ fs = fileState

\* -- errors: the error options, the error schema's file and the top-level
\* elements vary
ErrorFile == <<"e", "r", "r">>

ErrorSchema ==
    XsdSchema(<<TypeOf("E", Element("e", <<"xsd", "string">>, NoAttr, NoAttr)),
                TypeOf("F", Element("f", <<"xsd", "integer">>, NoAttr, NoAttr))>>, <<>>)

\* the source of the error schema: inline content with or without schema
\* root, a file path, or neither
ErrorSources ==
    {<<<<Document(<<ErrorSchema>>)>>, NoString>>, <<<<Document(<<>>)>>, NoString>>,
     <<<<>>, ErrorFile>>, <<<<>>, NoString>>}

ErrorChoices ==
    {<<>>} \cup
    {<<ErrorOptions(src[1], src[2], code, NoAttr, name)>> :
        src \in ErrorSources, code \in {"500", "200"}, name \in {NoAttr, "F"}}

ErrorElements ==
    {Element(<<"a", "R", "e", "q">>, <<"A">>, NoAttr, NoAttr),
     Element(<<"a", "R", "e", "q">>, <<"A">>, "0", NoAttr),
     Element(<<"a", "R", "e", "s">>, <<"tns", "B">>, NoAttr, NoAttr),
     Element(<<"b", "R", "e", "s">>, <<"A">>, "0", NoAttr),
     Element(<<"a">>, <<"A">>, NoAttr, NoAttr)}

ErrorInputs(c, fs) ==
    \E l \in ListsUpTo(ErrorElements, MaxTop), e \in ErrorChoices,
       errorFile \in FileStates(ErrorFile, ErrorSchema) :
        /\ c = OnContent([Config(<<"A", "b">>, NoString,
                                 [Options(NoString, NoString, NoFlag) EXCEPT !.error = e])
                          EXCEPT !.outputFilePath = <<"o">>],
                         XsdSchema(<<TypeA, TypeB>>, l))
        /\ fs = errorFile

\* -- empty types: the content model of the request element's type E, the
\*    type the request element names and the defaultType option vary
EmptySequences ==
    {<<>>, <<XsdSequence(<<>>, <<>>)>>,
     <<XsdSequence(<<Element("x", <<"xsd", "string">>, NoAttr, NoAttr)>>, <<>>)>>}

EmptyChoices ==
    {<<>>, <<XsdChoice(<<>>, <<>>, NoAttr)>>, <<XsdChoice(<<XsdSequence(<<>>, <<>>)>>, <<>>, NoAttr)>>,
     <<XsdChoice(<<>>, <<Element("y", <<"xsd", "string">>, NoAttr, NoAttr)>>, NoAttr)>>}

EmptyInputs(c, fs) ==
    \E sq \in EmptySequences, ch \in EmptyChoices, t \in {<<"E">>, <<"tns", "E">>, <<"Z">>, <<"A">>},
       d \in {NoAttr, "decimal"} :
        /\ c = OnContent(Config(<<"A", "b">>, NoString,
                                [Options(NoString, NoString, NoFlag) EXCEPT !.defaultType = d]),
                         XsdSchema(<<XsdComplexType("E", sq, ch), TypeA>>,
                                   <<Element(<<"e", "R", "e", "q">>, t, NoAttr, NoAttr)>>))
        /\ fs = NoFiles

\* -- skipped imports: a call on inline content or on the input file whose
\*    schema has no import or one import, which may name the namespace of
\*    the xsd prefix or a namespace without prefix; c.xsd varies
SkippedImportInputs(c, fs) ==
    \E imports \in ListsUpTo(ImportDeclarations \cup {XsdImport("w3", <<"c">>)}, 1),
       types \in TopTypePairs, localTypes \in {<<>>, <<LocalC>>}, onFile \in BOOLEAN,
       cFile \in FileStates(CFile, ImportedC) :
        /\ c = IF onFile
               THEN Config(<<"A", "b">>, MainFile, Options(NoString, NoString, NoFlag))
               ELSE OnContent(Config(<<"A", "b">>, NoString, Options(NoString, NoString, NoFlag)),
                              ImportMain(localTypes, types, imports))
        /\ fs = FileOf(MainFile, Document(<<ImportMain(localTypes, types, imports)>>)) @@ cFile
                  @@ FileOf(EFile, Document(<<ImportedE>>))

\* -- shared types: the request, response and error types P, Q and E all
\*    have an element of the type B; the elements and the error option vary
TypeP == TypeOf("P", Element("p", <<"tns", "B">>, NoAttr, NoAttr))

TypeQ == TypeOf("Q", Element("q", <<"tns", "B">>, NoAttr, NoAttr))

SharedElements ==
    {Element(<<"a", "R", "e", "q">>, <<"P">>, NoAttr, NoAttr),
     Element(<<"a", "R", "e", "s">>, <<"Q">>, NoAttr, NoAttr),
     Element(<<"a", "R", "e", "s">>, <<"P">>, NoAttr, NoAttr),
     Element(<<"b", "R", "e", "s">>, <<"Q">>, NoAttr, NoAttr)}

SharedErrorSchema == XsdSchema(<<TypeOf("E", Element("e", <<"tns", "B">>, NoAttr, NoAttr)), TypeB>>, <<>>)

SharedInputs(c, fs) ==
    \E l \in ListsUpTo(SharedElements, MaxTop),
       e \in {<<>>, <<ErrorOptions(<<Document(<<SharedErrorSchema>>)>>, NoString, "500", NoAttr, NoAttr)>>} :
        /\ c = OnContent(Config(<<"A", "b">>, NoString,
                                [Options(NoString, NoString, NoFlag) EXCEPT !.error = e]),
                         XsdSchema(<<TypeP, TypeQ, TypeB>>, l))
        /\ fs = NoFiles

\* ------------------------------------------------------------------------
\* State
\* ------------------------------------------------------------------------

VARIABLES
    pc,               \* generator: "start" before the generation, "done" after
    input,            \* generator: the arguments of the generateSchema call
    output,           \* generator: what generateSchema returned
    apc,              \* assembler: "call", "start", "imports", "reading",
                      \*   "group", "paths", "write", "done", "failed"
    config,           \* assembler: the XsdToOpenApiConfig of the call
    files,            \* assembler: the files that exist, with their documents
    xsdSchema,        \* assembler: the parsed schema
    specName,         \* assembler: the schemaName of generateOpenApiSpec
    pending,          \* assembler: the import declarations whose read is in flight
    importedSchemas,  \* assembler: the map getImportedSchemas fills
    cursor,           \* assembler: the element or path name worked on next
    groupedElements,  \* assembler: the accumulator of the reduce
    paths,            \* assembler: openApiSpec.paths
    outputFile,       \* assembler: what was written to outputFilePath, if anything
    failure           \* assembler: the message of the error thrown, "" if none

genVars == <<pc, input, output>>

asmVars == <<apc, config, files, xsdSchema, specName, pending, importedSchemas, cursor, groupedElements, paths, outputFile, failure>>

vars == <<pc, input, output, apc, config, files, xsdSchema, specName, pending, importedSchemas, cursor, groupedElements, paths, outputFile, failure>>

NoOutput == Result(BlankNode, {}, 0, FALSE)

NoInput == GenInput(XsdSchema(<<>>, <<>>), <<>>, NoImports, DefaultDefaultType)

NoConfig == Config(NoString, NoString, Options(NoString, NoString, NoFlag))

\* the state of a call before its first step
NotStarted ==
    /\ xsdSchema = XsdSchema(<<>>, <<>>)
    /\ specName = <<>>
    /\ pending = {}
    /\ importedSchemas = NoImports
    /\ cursor = 0
    /\ groupedElements = <<>>
    /\ paths = <<>>
    /\ outputFile = <<>>
    /\ failure = ""

\* the assembler is not running
AsmIdle ==
    /\ apc = "idle"
    /\ config = NoConfig
    /\ files = NoFiles
    /\ NotStarted

\* no generation of its own is running
GenIdle ==
    /\ pc = "idle"
    /\ input = NoInput
    /\ output = NoOutput

Init ==
    /\ pc = "start"
    /\ GenInputs(input)
    /\ output = NoOutput
    /\ AsmIdle

\* the assembler's call: generateSchema({xsdSchema, typeName, defaultType,
\* importedSchemas}) with resolvedTypes defaulting to a new empty set
Generate ==
    /\ pc = "start"
    /\ output' = generateSchema(input.xsdSchema, input.typeName, {}, input.importedSchemas, input.defaultType, MaxDepth)
    /\ pc' = "done"
    /\ UNCHANGED input
    /\ UNCHANGED asmVars

Next == Generate

Spec == Init /\ [][Next]_vars

\* -- the assembler

AsmInit ==
    /\ GenIdle
    /\ apc = "call"
    /\ \/ PairingInputs(config, files)
       \/ NamingInputs(config, files)
       \/ ImportInputs(config, files)
       \/ SourceInputs(config, files)
       \/ ErrorInputs(config, files)
       \/ EmptyInputs(config, files)
       \/ SkippedImportInputs(config, files)
       \/ SharedInputs(config, files)
    /\ NotStarted

options == config.specGenerationOptions

requestSuffix == StringOrDefault(options.requestSuffix, DefaultRequestSuffix)

responseSuffix == StringOrDefault(options.responseSuffix, DefaultResponseSuffix)

httpMethod == OrDefault(options.httpMethod, DefaultHttpMethod)

contentType == OrDefault(options.contentType, DefaultContentType)

defaultType == OrDefault(options.defaultType, DefaultDefaultType)

useSchemaNameInPath == FlagOrDefault(options.useSchemaNameInPath, FALSE)

\* line 520-521
validElements == xsdSchema.element

\* where the reduce goes after the element at `cursor`
AfterElement(i, acc) ==
    IF i < Len(validElements) THEN "group" ELSE IF acc = <<>> THEN "write" ELSE "paths"

\* the call throws
Fail(message) ==
    /\ apc' = "failed"
    /\ failure' = message

\* lines 213-228: the source is read and parsed
ReadInput ==
    /\ apc = "call"
    /\ LET source == sourceSchema(config.inputFilePath, config.xsdContent, files)
       IN IF source.error # ""
          THEN Fail(source.error) /\ UNCHANGED xsdSchema
          ELSE apc' = "start" /\ xsdSchema' = source.schema[1] /\ UNCHANGED failure
    /\ UNCHANGED <<config, files, specName, pending, importedSchemas, cursor, groupedElements, paths, outputFile>>
    /\ UNCHANGED genVars

\* lines 230-238 and 489-511: the schema name is settled and
\* generateOpenApiSpec starts; basename of an absent path throws
StartSpec ==
    /\ apc = "start"
    /\ IF ~TruthyString(config.schemaName) /\ config.inputFilePath = NoString
       THEN Fail("TypeError") /\ UNCHANGED specName
       ELSE /\ specName' = specNameOf(config.schemaName, config.inputFilePath)
            /\ apc' = "imports"
            /\ UNCHANGED failure
    /\ UNCHANGED <<config, files, xsdSchema, pending, importedSchemas, cursor, groupedElements, paths, outputFile>>
    /\ UNCHANGED genVars

\* the import declarations whose namespace has a prefix (line 434)
prefixedImports ==
    {i \in 1..Len(xsdSchema.import) : namespacePrefixOf(xsdSchema, xsdSchema.import[i]) # ""}

\* lines 513-518 and 426-440: getImportedSchemas is called; it returns at
\* once without imports or input path, and else issues a read for every
\* import whose namespace has a prefix
IssueReads ==
    /\ apc = "imports"
    /\ IF xsdSchema.import = <<>> \/ ~TruthyString(config.inputFilePath) \/ prefixedImports = {}
       THEN apc' = AfterElement(0, <<>>) /\ pending' = {} /\ cursor' = 1
       ELSE apc' = "reading" /\ pending' = prefixedImports /\ UNCHANGED cursor
    /\ UNCHANGED <<config, files, xsdSchema, specName, importedSchemas, groupedElements, paths, outputFile, failure>>
    /\ UNCHANGED genVars

\* lines 440-448: one read completes.  The first failure rejects
\* Promise.all and with it the call; the other reads still complete
CompleteRead(i) ==
    /\ apc \in {"reading", "failed"}
    /\ i \in pending
    /\ pending' = pending \ {i}
    /\ LET xsdImport == xsdSchema.import[i]
           outcome == importOutcome(files, importFilePathOf(config.inputFilePath, xsdImport))
       IN /\ importedSchemas' =
                IF outcome.error = ""
                THEN setImport(importedSchemas, namespacePrefixOf(xsdSchema, xsdImport), outcome.schema[1])
                ELSE importedSchemas
          /\ IF apc = "failed" THEN UNCHANGED <<apc, failure, cursor>>
             ELSE IF outcome.error # "" THEN Fail(outcome.error) /\ UNCHANGED cursor
             ELSE IF pending' = {} THEN apc' = AfterElement(0, <<>>) /\ cursor' = 1 /\ UNCHANGED failure
             ELSE UNCHANGED <<apc, failure, cursor>>
    /\ UNCHANGED <<config, files, xsdSchema, specName, groupedElements, paths, outputFile>>
    /\ UNCHANGED genVars

\* lines 523-554: one element is folded into groupedElements
GroupElement ==
    /\ apc = "group"
    /\ groupedElements' = groupElement(groupedElements, validElements[cursor], requestSuffix, responseSuffix)
    /\ apc' = AfterElement(cursor, groupedElements')
    /\ cursor' = IF cursor < Len(validElements) THEN cursor + 1 ELSE 1
    /\ UNCHANGED <<config, files, xsdSchema, specName, pending, importedSchemas, paths, outputFile, failure>>
    /\ UNCHANGED genVars

\* lines 556-648: the path item of one path name
BuildPath ==
    /\ apc = "paths"
    /\ LET pathName == groupedElements[cursor].key
           entry == groupedElements[cursor].value
           openApiPathName == openApiPathNameOf(useSchemaNameInPath, specName, pathName)
           operation == operationOf(xsdSchema, pathName, openApiPathName, entry, httpMethod,
                                    contentType, defaultType, importedSchemas)
           errorSchema == IF options.error = <<>> THEN [error |-> "", schema |-> <<>>]
                          ELSE errorSchemaOf(options.error[1], files)
       IN IF errorSchema.error # ""
          THEN Fail(errorSchema.error) /\ UNCHANGED <<paths, cursor>>
          ELSE /\ paths' = SetKey(paths, openApiPathName,
                                  SetKey(<<>>, httpMethod,
                                         IF options.error = <<>> THEN operation
                                         ELSE withErrorResponse(operation, options.error[1],
                                                                errorSchema.schema, contentType,
                                                                defaultType)))
               /\ apc' = IF cursor < Len(groupedElements) THEN "paths" ELSE "write"
               /\ cursor' = cursor + 1
               /\ UNCHANGED failure
    /\ UNCHANGED <<config, files, xsdSchema, specName, pending, importedSchemas, groupedElements, outputFile>>
    /\ UNCHANGED genVars

\* lines 240-248: the document is written to outputFilePath, if one is
\* given, and returned
WriteOutput ==
    /\ apc = "write"
    /\ outputFile' = IF TruthyString(config.outputFilePath) THEN <<paths>> ELSE outputFile
    /\ apc' = "done"
    /\ UNCHANGED <<config, files, xsdSchema, specName, pending, importedSchemas, cursor, groupedElements, paths, failure>>
    /\ UNCHANGED genVars

AsmNext ==
    \/ ReadInput
    \/ StartSpec
    \/ IssueReads
    \/ \E i \in pending : CompleteRead(i)
    \/ GroupElement
    \/ BuildPath
    \/ WriteOutput

AsmSpec == AsmInit /\ [][AsmNext]_vars

\* ------------------------------------------------------------------------
\* Properties of the schema generator
\* ------------------------------------------------------------------------

Done == pc = "done"

\* every node of a generated tree
RECURSIVE SubNodes(_)
SubNodes(n) ==
    {n}
    \cup UNION {SubNodes(n.properties[i].node) : i \in 1..Len(n.properties)}
    \cup UNION {SubNodes(n.items[i]) : i \in 1..Len(n.items)}
    \cup UNION {SubNodes(n.alternatives[i]) : i \in 1..Len(n.alternatives)}

Generated == SubNodes(output.node)

\* the schema an element resolved to, under the array wrapper if it has one
OwnSchema(s) ==
    IF s.property.type = "array" /\ s.property.hasItems THEN s.property.items[1]
    ELSE s.property

IsEmptyObject(n) == n.type = "object" /\ n.hasProperties /\ n.properties = <<>>

MinOccursIsOne(e) == e.minOccurs \in {NoAttr, "1"}

\* the complex type under generation
TopType == input.xsdSchema.complexType[1]

\* C1: every element whose maxOccurs is neither absent nor "1" has an array
\* property, {type: "array", items: ...}.
C1_ArrayForAnyOtherMaxOccurs ==
    Done =>
        \A n \in Generated : \A i \in 1..Len(n.sources) :
            n.sources[i].element.maxOccurs \notin {NoAttr, "1"}
                => n.sources[i].property.type = "array" /\ n.sources[i].property.hasItems

ElementsOfSequence(sq) ==
    Range(sq.element) \cup UNION {Range(sq.choice[i].element) : i \in 1..Len(sq.choice)}

ElementsOfChoice(ch) ==
    Range(ch.element) \cup UNION {Range(ch.sequence[i].element) : i \in 1..Len(ch.sequence)}

ElementsOfType(ct) ==
    UNION {ElementsOfSequence(ct.sequence[i]) : i \in 1..Len(ct.sequence)}
    \cup UNION {ElementsOfChoice(ct.choice[i]) : i \in 1..Len(ct.choice)}

DeclaredTypeNames(schema) == {<<schema.complexType[i].name>> : i \in 1..Len(schema.complexType)}

\* the local names of the type references that are not in the xsd/xs namespace
ReferencedTypeNames(schema) ==
    {<<t[Len(t)]>> :
        t \in {e.type : e \in UNION {ElementsOfType(schema.complexType[i]) : i \in 1..Len(schema.complexType)}}
              \ ({NoType} \cup {u \in PrimitiveSpellings : u[1] \in {"xsd", "xs"}})}

SchemasOf(in) == {in.xsdSchema} \cup {in.importedSchemas[p] : p \in DOMAIN in.importedSchemas}

\* the distinct type names of an input: declared or referred to
TypeNamesOf(in) ==
    UNION {DeclaredTypeNames(sc) \cup ReferencedTypeNames(sc) : sc \in SchemasOf(in)}

\* C3: generateSchema terminates on every schema, cyclic type graphs and
\* cycles through an import included: no resolution chain is cut off by the
\* model's depth bound, and the chain of nested type resolutions is never
\* longer than the number of distinct type names.
C3_TerminatesWithinTypeNames ==
    Done => ~output.cut /\ output.depth <= Cardinality(TypeNamesOf(input))

\* C3 witness: a generation over a cyclic type graph that crosses the import
\* boundary and nests as many resolutions as there are type names.
C3_Witness ==
    /\ Done
    /\ output.depth = Cardinality(TypeNamesOf(input))
    /\ output.depth >= 3
    /\ DOMAIN input.importedSchemas # {}
    /\ \E n \in Generated : \E i \in 1..Len(n.sources) : IsEmptyObject(OwnSchema(n.sources[i]))

\* the complex type an element refers to: the schema searched and the name
RefTarget(e, schema, imports) ==
    LET t == e.type
    IN IF t = NoType \/ Len(t) > 2 THEN [isRef |-> FALSE, schema |-> schema, name |-> <<>>]
       ELSE IF Len(t) = 1 THEN [isRef |-> TRUE, schema |-> schema, name |-> t]
       ELSE IF t[1] = "tns" THEN [isRef |-> TRUE, schema |-> schema, name |-> <<t[2]>>]
       ELSE IF t[1] \in DOMAIN imports THEN [isRef |-> TRUE, schema |-> imports[t[1]], name |-> <<t[2]>>]
       ELSE [isRef |-> FALSE, schema |-> schema, name |-> <<>>]

\* the node was generated for the type on top of `chain`: each reference to
\* a complex type is the empty object exactly when the type is on the chain,
\* and is otherwise generated with the chain extended by it
RECURSIVE ChainGuarded(_, _, _, _)
ChainGuarded(node, schema, chain, imports) ==
    /\ \A i \in 1..Len(node.sources) :
        LET own == OwnSchema(node.sources[i])
            tg == RefTarget(node.sources[i].element, schema, imports)
        IN (tg.isRef /\ tg.name \in DeclaredTypeNames(tg.schema)) =>
            /\ IsEmptyObject(own) <=> tg.name \in chain
            /\ tg.name \notin chain => ChainGuarded(own, tg.schema, chain \cup {tg.name}, imports)
    /\ \A i \in 1..Len(node.alternatives) :
        ChainGuarded(node.alternatives[i], schema, chain, imports)

\* C4: a reference to a complex type yields the empty object exactly when
\* the type is on the current resolution chain (the top-level type
\* included); a type off the chain is expanded in full.
C4_EmptyObjectExactlyOnChain ==
    Done => ChainGuarded(output.node, input.xsdSchema, {input.typeName}, input.importedSchemas)

\* the documented mapping of the nine primitives
DocumentedType(name) ==
    CASE name \in {"decimal", "float", "double"} -> "number"
      [] name = "integer" -> "integer"
      [] name = "boolean" -> "boolean"
      [] name \in {"string", "date", "dateTime", "time"} -> "string"

DocumentedPrimitives ==
    {"string", "decimal", "float", "double", "integer", "boolean", "date", "dateTime", "time"}

\* a primitive name, bare or with the xsd:/xs: prefix
IsPrimitiveSpelling(t) ==
    \/ Len(t) = 1 /\ t[1] \in DocumentedPrimitives
    \/ Len(t) = 2 /\ t[1] \in {"xsd", "xs"} /\ t[2] \in DocumentedPrimitives

\* C5: an element of one of the nine primitive types, with or without the
\* xsd:/xs: prefix, resolves to a node of the documented type without
\* properties, whatever the defaultType.
C5_PrimitiveMapping ==
    Done =>
        \A n \in Generated : \A i \in 1..Len(n.sources) :
            LET t == n.sources[i].element.type
                own == OwnSchema(n.sources[i])
            IN IsPrimitiveSpelling(t) =>
                /\ own.type = DocumentedType(t[Len(t)])
                /\ ~own.hasProperties
                /\ own.combinator = NoAttr

\* C5 witness: an xs:integer element generated under defaultType "decimal".
C5_Witness ==
    /\ Done
    /\ input.defaultType = "decimal"
    /\ \E n \in Generated : \E i \in 1..Len(n.sources) :
        /\ n.sources[i].element.type = <<"xs", "integer">>
        /\ OwnSchema(n.sources[i]).type = "integer"

\* the complex type under generation has a choice of elements as its
\* content model
TopIsChoiceOfElements ==
    /\ TopType.sequence = <<>>
    /\ Len(TopType.choice) = 1
    /\ TopType.choice[1].sequence = <<>>

\* C6 as claimed: a complex type whose content model is a choice generates
\* a combinator, anyOf when the choice's maxOccurs is "unbounded" and oneOf
\* otherwise, with one alternative per choice element in source order;
\* every alternative is an object with exactly one property whose name is
\* in the alternative's `required`.
C6_ChoiceBranchesAlwaysRequired ==
    (Done /\ TopIsChoiceOfElements) =>
        LET choice == TopType.choice[1]
            node == output.node
        IN /\ node.type = NoAttr
           /\ node.combinator = (IF choice.maxOccurs = "unbounded" THEN "anyOf" ELSE "oneOf")
           /\ Len(node.alternatives) = Len(choice.element)
           /\ \A i \in 1..Len(choice.element) :
                LET alt == node.alternatives[i]
                IN /\ alt.type = "object"
                   /\ Len(alt.properties) = 1
                   /\ alt.properties[1].name = choice.element[i].name
                   /\ choice.element[i].name \in Range(alt.required)

\* C6 as amended: a complex type whose content model is a choice of at
\* least one element generates a combinator, anyOf when the choice's
\* maxOccurs is "unbounded" and oneOf otherwise, with one alternative per
\* choice element in source order; every alternative is an object with
\* exactly one property, and the property's name is in the alternative's
\* `required` exactly when the element's minOccurs is absent or "1" and the
\* property is not an array.
C6_ChoiceCombinator ==
    (Done /\ TopIsChoiceOfElements /\ TopType.choice[1].element # <<>>) =>
        LET choice == TopType.choice[1]
            node == output.node
        IN /\ node.type = NoAttr
           /\ ~node.hasProperties
           /\ node.combinator = (IF choice.maxOccurs = "unbounded" THEN "anyOf" ELSE "oneOf")
           /\ Len(node.alternatives) = Len(choice.element)
           /\ \A i \in 1..Len(choice.element) :
                LET alt == node.alternatives[i]
                IN /\ alt.type = "object"
                   /\ Len(alt.properties) = 1
                   /\ alt.properties[1].name = choice.element[i].name
                   /\ choice.element[i].name \in Range(alt.required)
                        <=> (MinOccursIsOne(choice.element[i])
                             /\ alt.properties[1].node.type # "array")

\* C6 witness: an unbounded choice of two elements became an anyOf whose
\* first alternative requires its property and whose second does not.
C6_Witness ==
    /\ Done
    /\ TopIsChoiceOfElements
    /\ TopType.choice[1].maxOccurs = "unbounded"
    /\ Len(TopType.choice[1].element) = 2
    /\ output.node.combinator = "anyOf"
    /\ Len(output.node.alternatives) = 2
    /\ output.node.alternatives[1].required # <<>>
    /\ output.node.alternatives[2].required = <<>>
    /\ TopType.choice[1].element[2].minOccurs = "0"

\* the complex type under generation is a sequence that holds one choice
\* and no element of its own
TopIsSequenceOfOneChoice ==
    /\ TopType.choice = <<>>
    /\ Len(TopType.sequence) = 1
    /\ TopType.sequence[1].element = <<>>
    /\ Len(TopType.sequence[1].choice) = 1
    /\ TopType.sequence[1].choice[1].element # <<>>

ImportOnlyTypeNames ==
    UNION {DeclaredTypeNames(input.importedSchemas[p]) : p \in DOMAIN input.importedSchemas}
    \ DeclaredTypeNames(input.xsdSchema)

\* C10: a type that only an imported schema declares is found only through
\* the import's prefix; an element of the main schema that names it without
\* a prefix gets {type: defaultType}.
C10_BareImportedNameIsDefaultType ==
    Done =>
        \A i \in 1..Len(output.node.sources) :
            LET s == output.node.sources[i]
            IN (Len(s.element.type) = 1 /\ s.element.type \in ImportOnlyTypeNames)
                => OwnSchema(s) = TypeNode(input.defaultType)

\* the values the `type` member of a schema node may hold
OpenApiNodeTypes == {"object", "array", "string", "number", "integer", "boolean"}

\* C12: for every schema and every permitted defaultType, each node of the
\* generated tree either has a `type` among object, array, string, number,
\* integer, boolean, or has no `type` and carries a oneOf/anyOf combinator.
C12_NodeTypesAreOpenApiTypes ==
    Done =>
        \A n \in Generated :
            \/ n.type \in OpenApiNodeTypes
            \/ n.type = NoAttr /\ n.combinator \in {"oneOf", "anyOf"}

\* C13: an element of a sequence or choice that has no type attribute
\* generates {type: defaultType}, whatever defaultType is configured.
C13_UntypedElementIsDefaultType ==
    Done =>
        \A n \in Generated : \A i \in 1..Len(n.sources) :
            n.sources[i].element.type = NoType
                => OwnSchema(n.sources[i]) = TypeNode(input.defaultType)

\* the facets of an element: its default, fixed and documentation values
Annotated(e) == e.default # NoAttr \/ e.fixed # NoAttr \/ e.documentation # NoAttr

\* the default, fixed and documentation values that an element carries are
\* those of its property
FacetsAttached ==
    Done =>
        \A n \in Generated : \A i \in 1..Len(n.sources) :
            LET e == n.sources[i].element
                p == n.sources[i].property
            IN /\ e.default # NoAttr => p.default = e.default
               /\ e.fixed # NoAttr => p.fixed = e.fixed
               /\ e.documentation # NoAttr => p.description = e.documentation

\* an element that is the only one of its name is listed in required
\* exactly when it would be without its facets
RequiredUnchangedByFacets ==
    Done =>
        \A n \in Generated : \A i \in 1..Len(n.sources) :
            LET e == n.sources[i].element
            IN (\A j \in 1..Len(n.sources) : n.sources[j].element.name = e.name => j = i)
                => ((\E k \in 1..Len(n.required) : n.required[k] = e.name)
                        <=> (MinOccursIsOne(e) /\ e.maxOccurs # "unbounded"))

\* C21: the default, fixed and documentation values present on a source
\* element are attached to its property as default, fixed and description,
\* and their presence does not change whether the property is listed in
\* required.
C21_FacetsAttachedRequiredUnchanged == FacetsAttached /\ RequiredUnchangedByFacets

\* the positions of the source elements of a node that qualify for required
Qualifying(n) ==
    {i \in 1..Len(n.sources) :
        MinOccursIsOne(n.sources[i].element) /\ n.sources[i].property.type # "array"}

\* C22: in every generated node each property name occurs at most once in
\* required, and required lists the names of the qualifying source elements
\* in the order of these elements; also when two elements of a sequence have
\* the same name.
C22_RequiredOnceInSourceOrder ==
    Done =>
        \A n \in Generated :
            /\ \A i, j \in 1..Len(n.required) : n.required[i] = n.required[j] => i = j
            /\ {n.required[i] : i \in 1..Len(n.required)}
                    = {n.sources[a].element.name : a \in Qualifying(n)}
            /\ \A i, j \in 1..Len(n.required) :
                    i < j => \E a, b \in Qualifying(n) :
                                /\ a < b
                                /\ n.sources[a].element.name = n.required[i]
                                /\ n.sources[b].element.name = n.required[j]

\* the type of the element has a prefix other than tns, xsd and xs that the
\* import map of the generation does not hold, and a local name
UnmappedPrefix(e) ==
    /\ Len(e.type) = 2
    /\ e.type[1] \notin {"tns", "xsd", "xs"}
    /\ e.type[1] \notin DOMAIN input.importedSchemas
    /\ e.type[2] # ""

\* C24: an element whose type has a foreign prefix that the import map does
\* not hold is resolved by its local name: to the primitive node if the
\* local name is a primitive name, and else as a complex type of the same
\* schema (shown here for the first element of the type under generation,
\* whose chain guard is still empty).
C24_UnmappedPrefixFallsToLocalName ==
    Done =>
        \A n \in Generated : \A i \in 1..Len(n.sources) :
            LET e == n.sources[i].element
                local == <<e.type[2]>>
            IN UnmappedPrefix(e) =>
                IF mappedElement(local) # NoAttr
                THEN OwnSchema(n.sources[i]) = TypeNode(mappedElement(local))
                ELSE (n = output.node /\ i = 1) =>
                        OwnSchema(n.sources[i])
                            = resolveReferencedSchema(input.xsdSchema, local, {}, input.defaultType,
                                                      input.importedSchemas, MaxDepth).node

\* the three content models: a sequence of elements, a choice of elements,
\* a choice whose branches are sequences of elements
TopIsSequenceOfElements ==
    /\ TopType.choice = <<>>
    /\ Len(TopType.sequence) = 1
    /\ TopType.sequence[1].choice = <<>>

TopIsChoiceOfSequences ==
    /\ TopType.sequence = <<>>
    /\ Len(TopType.choice) = 1
    /\ TopType.choice[1].element = <<>>
    /\ TopType.choice[1].sequence # <<>>
    /\ \A i \in 1..Len(TopType.choice[1].sequence) : TopType.choice[1].sequence[i].choice = <<>>

\* the property names of the generated tree
GeneratedNames == UNION {{n.properties[i].name : i \in 1..Len(n.properties)} : n \in Generated}

\* C30: for a complex type that is a sequence of elements, a choice of
\* elements or a choice whose branches are sequences of elements, every
\* element declared in the content model, in whichever branch, is a
\* property name somewhere in the generated schema.
C30_NoDeclaredElementLost ==
    (Done /\ (TopIsSequenceOfElements \/ TopIsChoiceOfElements \/ TopIsChoiceOfSequences)) =>
        \A e \in ElementsOfType(TopType) : e.name \in GeneratedNames

\* ------------------------------------------------------------------------
\* Properties of the operation assembler
\* ------------------------------------------------------------------------

AsmDone == apc = "done"

\* the top-level elements of a name
ElementsNamed(name) == {i \in 1..Len(validElements) : validElements[i].name = name}

\* the beginnings of the top-level elements' names
PathNameCandidates ==
    UNION {{SubSeq(validElements[i].name, 1, k) : k \in 0..Len(validElements[i].name)} :
               i \in 1..Len(validElements)}

PublicPath(pathName) == openApiPathNameOf(useSchemaNameInPath, specName, pathName)

PathItemsAt(key) == {i \in 1..Len(paths) : paths[i].key = key}

OperationAt(key) == GetKey(GetKey(paths, key), httpMethod)

ContentSchema(body) == GetKey(body.content, contentType).schema

\* the schema generated from the type of a top-level element
SchemaOfElement(i) ==
    generateSchema(xsdSchema, resolveType(defaultType, validElements[i].type).typeName, {},
                   importedSchemas, defaultType, MaxDepth).node

\* one path for pathName, its operation pairing an element named
\* pathName+requestSuffix with an element named pathName+responseSuffix
PairedAt(pathName) ==
    LET key == PublicPath(pathName)
    IN /\ Cardinality(PathItemsAt(key)) = 1
       /\ OperationAt(key).requestBody # <<>>
       /\ \E i \in ElementsNamed(pathName \o requestSuffix) :
              ContentSchema(OperationAt(key).requestBody[1]) = SchemaOfElement(i)
       /\ HasKey(OperationAt(key).responses, "200")
       /\ \E j \in ElementsNamed(pathName \o responseSuffix) :
              ContentSchema(GetKey(OperationAt(key).responses, "200")) = SchemaOfElement(j)

BothDeclared(pathName) ==
    \E i \in ElementsNamed(pathName \o requestSuffix), j \in ElementsNamed(pathName \o responseSuffix) : i # j

EndsWithNeither(name) == ~EndsWith(name, requestSuffix) /\ ~EndsWith(name, responseSuffix)

\* an element that ends with neither suffix holds no role of any path
\* name, and every path comes from a path name that holds a role
NeitherContributes ==
    /\ \A i \in 1..Len(validElements) :
          EndsWithNeither(validElements[i].name) =>
              \A g \in 1..Len(groupedElements) :
                  /\ validElements[i] \notin Range(groupedElements[g].value.request)
                  /\ validElements[i] \notin Range(groupedElements[g].value.response)
    /\ Len(paths) = Len(groupedElements)

\* C8: for any configured suffixes, two top-level elements named
\* P+requestSuffix and P+responseSuffix give exactly one path for P, whose
\* operation has a requestBody generated from the request element's type and
\* a responses["200"] generated from the response element's type; an element
\* whose name ends with neither suffix contributes to no path.
C8_PairedForAnySuffixes ==
    AsmDone =>
        /\ \A p \in PathNameCandidates : BothDeclared(p) => PairedAt(p)
        /\ NeitherContributes

\* the name of the input file without its .xsd extension
FileNameOf(path) ==
    LET slashes == {i \in 1..Len(path) : path[i] = "/"}
        start == IF slashes = {} THEN 1 ELSE (CHOOSE i \in slashes : \A j \in slashes : j <= i) + 1
        name == SubSeq(path, start, Len(path))
    IN IF EndsWith(name, XsdExtension) THEN SubSeq(name, 1, Len(name) - Len(XsdExtension)) ELSE name

\* a schema name is supplied when the option holds a non-empty string
SuppliedSchemaName == config.schemaName # NoString /\ config.schemaName # <<>>

ExpectedSchemaName ==
    toLowerCase(IF SuppliedSchemaName THEN config.schemaName ELSE FileNameOf(config.inputFilePath))

ExpectedPublicPath(pathName) ==
    IF options.useSchemaNameInPath = Flag(TRUE)
    THEN <<"/">> \o ExpectedSchemaName \o <<"/">> \o pathName
    ELSE <<"/">> \o pathName

\* C9: the public path of a path name P is "/"+P when useSchemaNameInPath is
\* off and "/"+S+"/"+P when it is on, S being the lower-cased schemaName if
\* one is supplied and else the lower-cased name of the input file without
\* its .xsd extension.
C9_PublicPath ==
    AsmDone =>
        /\ Len(paths) = Len(groupedElements)
        /\ \A i \in 1..Len(paths) : paths[i].key = ExpectedPublicPath(groupedElements[i].key)

\* no schema name, file d/B-a.xsd, the option on: the paths /b-a/a and /b-a/B
C9_Witness ==
    /\ AsmDone
    /\ ~SuppliedSchemaName
    /\ options.useSchemaNameInPath = Flag(TRUE)
    /\ HasKey(paths, <<"/", "b", "-", "a", "/", "a">>)
    /\ HasKey(paths, <<"/", "b", "-", "a", "/", "B">>)

\* a type reference with a prefix other than xsd, xs and the schema's own tns
ForeignPrefixed(type) == Len(type) = 2 /\ type[1] \notin {"xsd", "xs", "tns"}

\* the schema of the type that a foreign-prefixed reference names in the
\* schema imported under its prefix
ThroughImports(type) ==
    generateSchema(importedSchemas[type[1]], <<type[2]>>, {}, importedSchemas, defaultType, MaxDepth).node

\* `schema` is what the main schema's complex type of the bare name generates
ResolvedLocally(type, schema) ==
    /\ \E i \in 1..Len(xsdSchema.complexType) : xsdSchema.complexType[i].name = type[2]
    /\ schema = generateSchema(xsdSchema, <<type[2]>>, {}, importedSchemas, defaultType, MaxDepth).node

\* a foreign-prefixed reference resolved to `schema` went through the import map
LookedUpThroughImports(type, schema, nested) ==
    IF type[1] \in DOMAIN importedSchemas
    THEN schema = ThroughImports(type) \/ (nested /\ schema = EmptyObject)
    ELSE ~ResolvedLocally(type, schema)

\* the request and response schemas of an operation
BodiesOf(operation) ==
    {ContentSchema(operation.requestBody[j]) : j \in 1..Len(operation.requestBody)}
    \cup {ContentSchema(operation.responses[k].value) :
            k \in {k \in 1..Len(operation.responses) : operation.responses[k].key = "200"}}

\* the request and response schemas of the paths built
BodySchemas == UNION {BodiesOf(OperationAt(paths[i].key)) : i \in 1..Len(paths)}

\* C11: every type reference with a foreign prefix is looked up through the
\* import map, for the type of a top-level request or response element as
\* for nested elements, and is never resolved by searching the main schema
\* for the bare local name.
C11_ForeignPrefixThroughImportMap ==
    AsmDone =>
        /\ \A g \in 1..Len(groupedElements) :
            LET entry == groupedElements[g].value
                operation == OperationAt(PublicPath(groupedElements[g].key))
            IN /\ \A r \in 1..Len(entry.request) :
                    ForeignPrefixed(entry.request[r].type) =>
                        LookedUpThroughImports(entry.request[r].type,
                                               ContentSchema(operation.requestBody[1]), FALSE)
               /\ \A r \in 1..Len(entry.response) :
                    ForeignPrefixed(entry.response[r].type) =>
                        LookedUpThroughImports(entry.response[r].type,
                                               ContentSchema(GetKey(operation.responses, "200")), FALSE)
        /\ \A body \in BodySchemas : \A n \in SubNodes(body) : \A i \in 1..Len(n.sources) :
            ForeignPrefixed(n.sources[i].element.type) =>
                LookedUpThroughImports(n.sources[i].element.type, OwnSchema(n.sources[i]), TRUE)

InputFileSupplied == config.inputFilePath # NoString /\ config.inputFilePath # <<>>

ContentSupplied == config.xsdContent # <<>>

InputFileExists == config.inputFilePath \in DOMAIN files

\* the content that is there to parse has no schema root, whichever of the
\* two sources is taken
NoSchemaRoot ==
    /\ InputFileSupplied \/ ContentSupplied
    /\ InputFileSupplied => InputFileExists /\ files[config.inputFilePath].schema = <<>>
    /\ ContentSupplied => config.xsdContent[1].schema = <<>>

\* the call has not gone past its first step without failing; nothing was
\* returned and nothing written
NothingProduced == apc \in {"call", "failed"} /\ paths = <<>> /\ outputFile = <<>>

C17_ContentWinsOverInputFile ==
    (ContentSupplied /\ InputFileSupplied /\ apc \notin {"idle", "call"}) =>
        IF config.xsdContent[1].schema = <<>>
        THEN failure = "No XSD schema found"
        ELSE /\ failure \notin {"Input file not found", "No XSD schema found"}
             /\ xsdSchema = config.xsdContent[1].schema[1]

\* C18: a call that supplies well-formed XSD text in xsdContent, with no
\* inputFilePath and no schemaName, succeeds and returns the generated
\* document.
C18_ContentAloneSucceeds ==
    /\ config.inputFilePath = NoString
    /\ config.schemaName = NoString
    /\ ContentSupplied
    /\ config.xsdContent[1].schema # <<>>
    => apc # "failed"

\* the file an import declaration of the imports family names, and whether
\* its namespace is that of a declared prefix other than xsd and xs
DeclaredFileOf(xsdImport) == IF xsdImport.schemaLocation = <<"c">> THEN CFile ELSE EFile

PrefixMatched(xsdImport) ==
    \E k \in 1..Len(xsdSchema.xmlns) :
        xsdSchema.xmlns[k].uri = xsdImport.namespace /\ xsdSchema.xmlns[k].prefix \notin {"xsd", "xs"}

\* the prefix-matched imports whose file is missing or has no schema root
FailingImports ==
    {i \in 1..Len(xsdSchema.import) :
        /\ PrefixMatched(xsdSchema.import[i])
        /\ \/ DeclaredFileOf(xsdSchema.import[i]) \notin DOMAIN files
           \/ files[DeclaredFileOf(xsdSchema.import[i])].schema = <<>>}

\* C15: if a prefix-matched import cannot be read or has no schema root the
\* whole call fails: no document is returned, no file is written and no
\* partial import map is used, whatever the other reads do and in whatever
\* order they complete.  (Imports are read relative to the input file, so
\* the call is one on an input file.)
C15_ImportFailureFailsCall ==
    (InputFileSupplied /\ FailingImports # {}) =>
        /\ apc \in {"start", "imports", "reading", "failed"}
        /\ apc = "reading" => pending # {}
        /\ apc = "failed" => failure \in {"ENOENT", "Invalid XSD schema"}
        /\ groupedElements = <<>>
        /\ paths = <<>>
        /\ outputFile = <<>>

\* of two imports the good one was read first and is in the map, then the
\* other failed the call
C15_Witness ==
    /\ apc = "failed"
    /\ failure \in {"ENOENT", "Invalid XSD schema"}
    /\ Len(xsdSchema.import) = 2
    /\ pending = {}
    /\ DOMAIN importedSchemas # {}
    /\ config.outputFilePath # NoString
    /\ outputFile = <<>>

ErrorSupplied == options.error # <<>>

\* the document the error options name, if there is one
ErrorDocuments ==
    IF ~ErrorSupplied THEN {}
    ELSE IF options.error[1].errorSchemaContent # <<>> THEN {options.error[1].errorSchemaContent[1]}
    ELSE IF options.error[1].errorSchemaFilePath \in DOMAIN files
    THEN {files[options.error[1].errorSchemaFilePath]}
    ELSE {}

\* the error schema's file is missing, or its content or file has no schema root
ErrorSchemaUnobtainable ==
    /\ ErrorSupplied
    /\ \/ options.error[1].errorSchemaContent # <<>> /\ options.error[1].errorSchemaContent[1].schema = <<>>
       \/ /\ options.error[1].errorSchemaContent = <<>>
          /\ options.error[1].errorSchemaFilePath # NoString
          /\ \A doc \in ErrorDocuments : doc.schema = <<>>

\* C16: whenever an error configuration is supplied and its error schema
\* cannot be obtained (file missing, or content or file without schema
\* root) the call fails with a wrapped 'Failed to parse error schema'
\* failure, for every input schema, one that produces no paths included;
\* the error block is never silently skipped.
C16_UnobtainableErrorSchemaFails ==
    ErrorSchemaUnobtainable =>
        /\ apc \notin {"write", "done"}
        /\ apc = "failed" => failure = "Failed to parse error schema"

\* the error configuration names a document with a schema root
ErrorSchemaObtained == \E doc \in ErrorDocuments : doc.schema # <<>>

\* what the selected complex type of the error schema generates
ExpectedErrorSchema ==
    LET errorXsdSchema == (CHOOSE doc \in ErrorDocuments : TRUE).schema[1]
        typeName == IF options.error[1].errorTypeName # NoAttr THEN options.error[1].errorTypeName
                    ELSE errorXsdSchema.complexType[1].name
    IN generateSchema(errorXsdSchema, <<typeName>>, {}, NoImports, defaultType, MaxDepth).node

\* C19: with a valid error configuration every operation has a response
\* under errorStatusCode, generated from the error schema's selected
\* complex type (errorTypeName, else the first), and the entry is
\* additional: for every errorStatusCode an operation with a response
\* element still has responses["200"] with the schema of that element's type.
C19_ErrorResponseIsAdditional ==
    (AsmDone /\ ErrorSchemaObtained) =>
        \A g \in 1..Len(groupedElements) :
            LET entry == groupedElements[g].value
                responses == OperationAt(PublicPath(groupedElements[g].key)).responses
            IN /\ HasKey(responses, options.error[1].errorStatusCode)
               /\ ContentSchema(GetKey(responses, options.error[1].errorStatusCode)) = ExpectedErrorSchema
               /\ entry.response # <<>> =>
                    /\ HasKey(responses, "200")
                    /\ ContentSchema(GetKey(responses, "200")) =
                         generateSchema(xsdSchema, resolveType(defaultType, entry.response[1].type).typeName,
                                        {}, importedSchemas, defaultType, MaxDepth).node

\* C20: the requestBody of an operation exists if and only if the path has
\* a request element, its `required` is false exactly when that element's
\* minOccurs is "0", and responses["200"] exists if and only if the path
\* has a response element.
C20_BodiesFollowElements ==
    AsmDone =>
        \A g \in 1..Len(groupedElements) :
            LET entry == groupedElements[g].value
                operation == OperationAt(PublicPath(groupedElements[g].key))
            IN /\ operation.requestBody # <<>> <=> entry.request # <<>>
               /\ operation.requestBody # <<>> =>
                    (operation.requestBody[1].required <=> entry.request[1].minOccurs # "0")
               /\ HasKey(operation.responses, "200") <=> entry.response # <<>>

\* the type names generateSchema is applied to: the declared ones and some
\* that no schema declares
CheckedTypeNames == DeclaredTypeNames(xsdSchema) \cup {<<"Z">>, <<"e">>, <<"string">>, <<"">>}

\* the complex type that generateSchema finds under typeName, if any
FoundTypes(schema, typeName) ==
    {i \in 1..Len(schema.complexType) :
        /\ <<schema.complexType[i].name>> = typeName
        /\ \A j \in 1..(i - 1) : <<schema.complexType[j].name>> # typeName}

\* typeName is no complex type of the schema, or one without any element
DeclaresNoElements(schema, typeName) ==
    \A i \in FoundTypes(schema, typeName) : ElementsOfType(schema.complexType[i]) = {}

\* C23: generateSchema returns {type: defaultType} when the type name is not
\* a complex type of the schema and when the complex type has no sequence
\* and no choice or they hold no elements; the request body of a request
\* element with such a type is {type: defaultType}, which is {type:
\* "string"} when no defaultType is configured.
C23_NoElementsIsDefaultType ==
    /\ \A t \in CheckedTypeNames :
            DeclaresNoElements(xsdSchema, t)
                => generateSchema(xsdSchema, t, {}, importedSchemas, defaultType, MaxDepth).node
                        = TypeNode(defaultType)
    /\ AsmDone =>
            \A g \in 1..Len(groupedElements) :
                LET entry == groupedElements[g].value
                    operation == OperationAt(PublicPath(groupedElements[g].key))
                IN \A r \in 1..Len(entry.request) :
                    DeclaresNoElements(xsdSchema, resolveType(defaultType, entry.request[r].type).typeName)
                        => /\ operation.requestBody # <<>>
                           /\ ContentSchema(operation.requestBody[1]) = TypeNode(defaultType)
                           /\ options.defaultType = NoAttr
                                => ContentSchema(operation.requestBody[1]) = TypeNode("string")

\* a request element whose complex type is declared without elements has
\* the request body {type: "string"}
C23_Witness ==
    /\ AsmDone
    /\ options.defaultType = NoAttr
    /\ \E g \in 1..Len(groupedElements) :
            LET entry == groupedElements[g].value
                operation == OperationAt(PublicPath(groupedElements[g].key))
                typeName == resolveType(defaultType, entry.request[1].type).typeName
            IN /\ entry.request # <<>>
               /\ FoundTypes(xsdSchema, typeName) # {}
               /\ DeclaresNoElements(xsdSchema, typeName)
               /\ ContentSchema(operation.requestBody[1]) = TypeNode("string")

\* the number of top-level elements folded into groupedElements
Folded ==
    IF apc = "group" THEN cursor - 1
    ELSE IF apc \in {"paths", "write", "done"} THEN Len(validElements)
    ELSE 0

IsRequestName(name) == requestSuffix # <<>> /\ EndsWith(name, requestSuffix)

IsResponseName(name) == responseSuffix # <<>> /\ EndsWith(name, responseSuffix)

RequestStripped(name) == SubSeq(name, 1, Len(name) - Len(requestSuffix))

ResponseStripped(name) == SubSeq(name, 1, Len(name) - Len(responseSuffix))

\* the path name of a request or response element
PathNameOf(name) ==
    IF IsRequestName(name) THEN RequestStripped(name) ELSE ResponseStripped(name)

\* the folded elements that claim a role of pathName
RequestsOf(pathName) ==
    {i \in 1..Folded : IsRequestName(validElements[i].name) /\ PathNameOf(validElements[i].name) = pathName}

ResponsesOf(pathName) ==
    {i \in 1..Folded : IsResponseName(validElements[i].name) /\ PathNameOf(validElements[i].name) = pathName}

Last(S) == CHOOSE i \in S : \A j \in S : j <= i

EntriesOf(pathName) == {g \in 1..Len(groupedElements) : groupedElements[g].key = pathName}

\* the element that holds a role, given the role's claimants
HeldByLast(slot, claimants) ==
    IF claimants = {} THEN slot = <<>> ELSE slot = <<validElements[Last(claimants)]>>

\* C25: after folding any list of top-level elements there is one entry per
\* path name, with at most one request and at most one response element;
\* the element that holds a role is the last one in document order of the
\* elements that claim this role of this path name.
C25_LastClaimantHoldsRole ==
    apc \in {"group", "paths", "write", "done"} =>
        /\ \A g \in 1..Len(groupedElements) :
            LET pathName == groupedElements[g].key
                entry == groupedElements[g].value
            IN /\ EntriesOf(pathName) = {g}
               /\ Len(entry.request) <= 1 /\ Len(entry.response) <= 1
               /\ HeldByLast(entry.request, RequestsOf(pathName))
               /\ HeldByLast(entry.response, ResponsesOf(pathName))
        /\ \A i \in 1..Folded :
            (IsRequestName(validElements[i].name) \/ IsResponseName(validElements[i].name))
                => EntriesOf(PathNameOf(validElements[i].name)) # {}

\* two different elements claim the request role of one path name and the
\* later one holds it
C25_Witness ==
    /\ apc = "done"
    /\ \E g \in 1..Len(groupedElements) :
        \E i, j \in RequestsOf(groupedElements[g].key) :
            /\ i < j
            /\ validElements[i] # validElements[j]
            /\ groupedElements[g].value.request = <<validElements[j]>>

\* the name ends with both suffixes
EndsWithBoth(name) == IsRequestName(name) /\ IsResponseName(name)

\* C26: a top-level element whose name ends with both suffixes is registered
\* under one path name, its name without the request suffix, in both roles
\* (which it holds unless a later element claims them); its name without the
\* response suffix is a path name only if it is the same name or another
\* element is registered under it.
C26_BothSuffixesUnderRequestName ==
    apc \in {"group", "paths", "write", "done"} =>
        \A i \in 1..Folded :
            LET name == validElements[i].name
            IN EndsWithBoth(name) =>
                /\ i \in RequestsOf(RequestStripped(name)) \cap ResponsesOf(RequestStripped(name))
                /\ \E g \in EntriesOf(RequestStripped(name)) :
                    /\ groupedElements[g].value.request
                            = <<validElements[Last(RequestsOf(RequestStripped(name)))]>>
                    /\ groupedElements[g].value.response
                            = <<validElements[Last(ResponsesOf(RequestStripped(name)))]>>
                /\ (ResponseStripped(name) # RequestStripped(name)
                        /\ EntriesOf(ResponseStripped(name)) # {})
                    => \E j \in 1..Folded :
                        /\ validElements[j].name # name
                        /\ PathNameOf(validElements[j].name) = ResponseStripped(name)
                        /\ IsRequestName(validElements[j].name) \/ IsResponseName(validElements[j].name)

\* an element whose name ends with both suffixes, the two stripped names
\* differing, holds both roles of its name without the request suffix, and
\* its name without the response suffix is no path name
C26_Witness ==
    /\ apc = "done"
    /\ \E i \in 1..Len(validElements) :
        LET name == validElements[i].name
        IN /\ EndsWithBoth(name)
           /\ ResponseStripped(name) # RequestStripped(name)
           /\ EntriesOf(ResponseStripped(name)) = {}
           /\ \E g \in EntriesOf(RequestStripped(name)) :
                /\ groupedElements[g].value.request = <<validElements[i]>>
                /\ groupedElements[g].value.response = <<validElements[i]>>

\* a read is pending only for an import whose namespace is that of a
\* declared prefix other than xsd and xs, and only in a call on an input file
ReadsOnlyMatchedImports ==
    /\ \A i \in pending : PrefixMatched(xsdSchema.import[i])
    /\ pending # {} => InputFileSupplied

\* a failed read is that of a prefix-matched import: the file of an import
\* without matching prefix is not missed
UnmatchedImportsRaiseNoError ==
    failure \in {"ENOENT", "Invalid XSD schema"} => InputFileSupplied /\ FailingImports # {}

\* the call is past getImportedSchemas and had no input file or no import
NothingToImport ==
    /\ apc \in {"group", "paths", "write", "done"}
    /\ ~InputFileSupplied \/ xsdSchema.import = <<>>

NoImportsNoMap == NothingToImport => pending = {} /\ DOMAIN importedSchemas = {}

\* without import map the foreign-prefixed types of nested elements and of
\* request and response elements generate {type: defaultType}
ForeignTypesAreDefaultType ==
    (AsmDone /\ NothingToImport) =>
        /\ \A body \in BodySchemas : \A n \in SubNodes(body) : \A i \in 1..Len(n.sources) :
            ForeignPrefixed(n.sources[i].element.type)
                => OwnSchema(n.sources[i]) = TypeNode(defaultType)
        /\ \A g \in 1..Len(groupedElements) :
            LET entry == groupedElements[g].value
                operation == OperationAt(PublicPath(groupedElements[g].key))
            IN /\ \A r \in 1..Len(entry.request) :
                    ForeignPrefixed(entry.request[r].type)
                        => ContentSchema(operation.requestBody[1]) = TypeNode(defaultType)
               /\ \A r \in 1..Len(entry.response) :
                    ForeignPrefixed(entry.response[r].type)
                        => ContentSchema(GetKey(operation.responses, "200")) = TypeNode(defaultType)

\* C27: a read is attempted for an import only when the call has an input
\* file path and the import's namespace is that of a declared prefix other
\* than xsd and xs; an import without matching prefix is skipped without
\* read and without error, even if its file does not exist; without input
\* path or without imports no read is attempted and every foreign-prefixed
\* element type resolves to {type: defaultType}.
C27_ReadsOnlyForMatchedImports ==
    /\ ReadsOnlyMatchedImports
    /\ UnmatchedImportsRaiseNoError
    /\ NoImportsNoMap
    /\ ForeignTypesAreDefaultType

\* the prefix-matched imports that resolve to prefix p
ImportsOfPrefix(p) ==
    {i \in 1..Len(xsdSchema.import) :
        PrefixMatched(xsdSchema.import[i]) /\ namespacePrefixOf(xsdSchema, xsdSchema.import[i]) = p}

\* C28: the import map that getImportedSchemas returns does not depend on
\* the order in which the reads complete: under every prefix it holds the
\* schema of the last import declared for this prefix.
C28_LastDeclaredImportRetained ==
    (apc \in {"group", "paths", "write", "done"} /\ InputFileSupplied) =>
        \A i \in 1..Len(xsdSchema.import) :
            LET p == namespacePrefixOf(xsdSchema, xsdSchema.import[i])
            IN PrefixMatched(xsdSchema.import[i]) =>
                /\ p \in DOMAIN importedSchemas
                /\ importedSchemas[p]
                        = files[DeclaredFileOf(xsdSchema.import[Last(ImportsOfPrefix(p))])].schema[1]

\* what a generation of its own, with no type resolved yet, makes of the
\* type of a top-level element
FreshSchemaOf(element) ==
    generateSchema(xsdSchema, resolveType(defaultType, element.type).typeName, {},
                   importedSchemas, defaultType, MaxDepth).node

\* the response under "200" is that of the response element
ResponseKept == ~(ErrorSchemaObtained /\ options.error[1].errorStatusCode = "200")

\* the parsed schema is the one read from the source, and the import map
\* holds schemas as read from the import files
SchemasAsRead ==
    /\ xsdSchema = sourceSchema(config.inputFilePath, config.xsdContent, files).schema[1]
    /\ \A p \in DOMAIN importedSchemas :
        \E i \in ImportsOfPrefix(p) :
            importedSchemas[p] = files[DeclaredFileOf(xsdSchema.import[i])].schema[1]

====
